---- MODULE Spec2Model ----
(***************************************************************************)
(* Provider plugin runtime of EchoV2: the provider registry                *)
(* (backend/core/models/registry.py), the provider contract                *)
(* (backend/core/models/base.py, with the lifecycle of                     *)
(* backend/core/plugins/ollama_provider.py) and the model manager          *)
(* (backend/core/models/manager.py).                                       *)
(*                                                                         *)
(* The program is a single asyncio event loop.  A coroutine runs without   *)
(* interruption between two awaits of a provider method; every action      *)
(* below is one such uninterrupted stretch of one coroutine.  The tasks of *)
(* the model are the concurrently running request handlers.                *)
(*                                                                         *)
(* The registry is generic in the provider: it awaits the coroutines of    *)
(* the contract (initialize, shutdown, reload, health_check,               *)
(* chat_completion) of whatever class was registered or discovered in the  *)
(* plug-in directory.  A provider may suspend in each of them (a plug-in   *)
(* that connects in initialize(), a session that closes over the network), *)
(* so other coroutines may run at each of these awaits.                    *)
(***************************************************************************)
EXTENDS Integers, Sequences, FiniteSets, TLC

\* ------------------------------------------------------------------------
\* Bounds and carrier sets
\* ------------------------------------------------------------------------

\* Number of provider objects that can exist at the same time.
MaxObjs == 3

\* Provider names the model ranges over.
Names == {"ollama", "echo"}

\* Concurrent request-handling coroutines.
Tasks == {"t1", "t2"}

\* Object references: 0 is Python's None.
NoObj == 0
ObjIds == 1..MaxObjs

\* Optional values are sequences of length 0 (absent) or 1 (present).
None == <<>>
Some(v) == <<v>>

\* dict.get(key, default)
Get(opt, default) == IF opt = None THEN default ELSE opt[1]

\* ------------------------------------------------------------------------
\* Configurations (Dict[str, Any]): the keys the Ollama provider reads.
\* A URL is <<scheme, rest>>.
\* ------------------------------------------------------------------------

CfgEmpty == [base_url |-> None, timeout |-> None, default_model |-> None,
             api_endpoints |-> None]
CfgA == [base_url |-> Some(<<"http://", "a:11434">>), timeout |-> None,
         default_model |-> Some("m1"), api_endpoints |-> None]
CfgBad == [base_url |-> Some(<<"ftp://", "a:11434">>), timeout |-> None,
           default_model |-> None, api_endpoints |-> None]

\* The value of "api_endpoints" is a mapping of its own: the configuration
\* holds a reference to it, and the mapping is changed in place by whoever
\* holds a reference.
MapIds == {1}
EndpointPaths == {"/api/generate", "/v2/generate"}
CfgNested == [base_url |-> None, timeout |-> None, default_model |-> None,
              api_endpoints |-> Some(1)]

Configs == {CfgEmpty, CfgA, CfgBad}

DefaultBaseUrl == <<"http://", "localhost:11434">>
DefaultTimeout == 60
DefaultModel == "mistral"

\* Truth value of a dict: the empty dict is falsy.
Truthy(cfg) ==
    \/ cfg.base_url # None
    \/ cfg.timeout # None
    \/ cfg.default_model # None
    \/ cfg.api_endpoints # None

\* OllamaProvider.validate_config
validate_config(cfg) ==
    /\ Get(cfg.base_url, DefaultBaseUrl)[1] \in {"http://", "https://"}
    /\ Get(cfg.timeout, DefaultTimeout) > 0

\* Text of the errors the upstream side of a provider can raise.
ErrTexts == {"connection refused", "boom"}

\* ProviderStatus, reduced to the fields the registry sets.
NoStatus == [available |-> FALSE, error |-> "absent"]
StatusUp == [available |-> TRUE, error |-> "none"]
StatusDown == [available |-> FALSE, error |-> "HTTP 500"]

\* The synthesized status reports the provider as available.
synth_status_available(e) == [available |-> TRUE, error |-> e]

\* ProviderStatus(available=False, models=[], error=str(e))
synth_status(e) == [available |-> FALSE, error |-> e]

\* ------------------------------------------------------------------------
\* Streaming data

\* The longest upstream stream.
MaxLines == 3

\* The content fragments an upstream item carries.
Fragments == {"", "Hel", "lo", "!"}

\* The providers that stream.
StreamProviders == {"ollama", "openai", "anthropic"}

\* One item of an upstream stream: a line of the Ollama response body, a
\* chunk of the OpenAI stream, an event of the Anthropic stream.  text is the
\* content field (None when the item has no such field), done the
\* completion flag ('done' of Ollama, a finish_reason of OpenAI).
Item(type, text, done) == [type |-> type, text |-> text, done |-> done]

\* The values of the content field of an item.
OptFragments == {None} \cup {Some(f) : f \in Fragments}

\* The read of the next upstream item raises.
Raising == Item("raise", None, FALSE)

\* The lines of an Ollama response body: an empty line, a line that is not
\* JSON, and a JSON object with or without the content key and 'done'.
OllamaLines ==
    {Item("empty", None, FALSE), Item("garbage", None, FALSE), Raising}
        \cup {Item("json", x, d) : x \in OptFragments, d \in BOOLEAN}

\* The chunks of an OpenAI stream: one without choices, and one whose first
\* choice has a delta content and a finish_reason, either of them absent.
OpenAIChunks ==
    {Item("no_choices", None, FALSE), Raising}
        \cup {Item("choice", x, d) : x \in OptFragments, d \in BOOLEAN}

\* The events of an Anthropic stream: message_start, a content_block_delta
\* whose delta has a text or has none, and message_stop.
AnthropicEvents ==
    {Item("message_start", None, FALSE), Item("message_stop", None, FALSE),
     Raising}
        \cup {Item("content_block_delta", x, FALSE) : x \in OptFragments}

UpstreamItems(p) ==
    CASE p = "ollama" -> OllamaLines
      [] p = "openai" -> OpenAIChunks
      [] OTHER -> AnthropicEvents

\* The upstream streams of provider p, of at most MaxLines items.
Upstreams(p) == UNION {[1..k -> UpstreamItems(p)] : k \in 0..MaxLines}

\* StreamingChunk, without its metadata.
StreamingChunk(content, is_final) ==
    [content |-> content, is_final |-> is_final]

\* No chat_completion_stream call has been made.
NoStream == [provider |-> "none", opens |-> FALSE, upstream |-> <<>>,
             pos |-> 0, resume |-> "none", yielded |-> <<>>,
             status |-> "none"]

\* ChatService data

\* The longest prompt, in tokens.
MaxPromptLen == 3

\* The most messages of one send_conversation call.
MaxMessages == 1

\* The coroutines that call the ChatService.
ChatTasks == {"s1", "s2"}

\* A text is a sequence of tokens, each a run of characters: a blank, a
\* tab, a markup character, a word.
Whitespace == {" ", "\t"}

\* The prompts: every text of at most MaxPromptLen tokens (whitespace, a
\* markup character, a word), and one that asks to ignore the instructions.
Prompts ==
    UNION {[1..k -> Whitespace \cup {"<", "hi"}] : k \in 0..MaxPromptLen}
        \cup {<<"ignore", "\t", "instructions">>}

\* len(token)
TokenLen(tok) ==
    CASE tok \in {" ", "\t", "<"} -> 1
      [] tok \in {"hi", "ok"} -> 2
      [] tok = "..." -> 3
      [] tok \in {"&lt;", "&gt;"} -> 4
      [] tok = "&amp;" -> 5
      [] tok = "ignore" -> 6
      [] tok = "[filtered]" -> 10
      [] tok = "instructions" -> 12
      [] OTHER -> 15

\* len(text)
RECURSIVE CharLen(_)
CharLen(text) ==
    IF text = <<>> THEN 0 ELSE TokenLen(Head(text)) + CharLen(Tail(text))

\* text[:n]: the tokens that fit in n characters (no text of the model is
\* cut inside a token).
RECURSIVE Slice(_, _)
Slice(text, n) ==
    IF text = <<>> \/ TokenLen(Head(text)) > n
    THEN <<>>
    ELSE <<Head(text)>> \o Slice(Tail(text), n - TokenLen(Head(text)))

RECURSIVE lstrip(_)
lstrip(text) ==
    IF text # <<>> /\ Head(text) \in Whitespace
    THEN lstrip(Tail(text)) ELSE text

RECURSIVE rstrip(_)
rstrip(text) ==
    IF text # <<>> /\ text[Len(text)] \in Whitespace
    THEN rstrip(SubSeq(text, 1, Len(text) - 1)) ELSE text

\* str.strip()
strip(text) == rstrip(lstrip(text))

\* re.sub(r'\s+', ' ', text): every run of whitespace becomes one blank.
RECURSIVE collapse_whitespace(_)
collapse_whitespace(text) ==
    IF text = <<>> THEN <<>>
    ELSE IF Head(text) \in Whitespace
         THEN <<" ">> \o collapse_whitespace(lstrip(text))
         ELSE <<Head(text)>> \o collapse_whitespace(Tail(text))

\* html.escape(text), character by character.
html_escape(text) ==
    [i \in 1..Len(text) |->
        CASE text[i] = "&" -> "&amp;"
          [] text[i] = "<" -> "&lt;"
          [] text[i] = ">" -> "&gt;"
          [] OTHER -> text[i]]

\* What the first of injection_patterns matches in the texts of the model,
\* whose whitespace is collapsed by then: 'ignore', a blank, 'instructions'.
\* No prompt of the model matches another pattern.
InjectionMatch == <<"ignore", " ", "instructions">>

\* re.sub(pattern, '[filtered]', text) for the patterns of injection_patterns
RECURSIVE filter_injections(_)
filter_injections(text) ==
    IF text = <<>> THEN <<>>
    ELSE IF /\ Len(text) >= Len(InjectionMatch)
            /\ SubSeq(text, 1, Len(InjectionMatch)) = InjectionMatch
         THEN <<"[filtered]">>
                  \o filter_injections(
                         SubSeq(text, Len(InjectionMatch) + 1, Len(text)))
         ELSE <<Head(text)>> \o filter_injections(Tail(text))

\* max_length of _sanitize_prompt
max_length == 10000

\* The longest prompt _validate_prompt accepts.
MaxValidLength == 50000

\* The characters of the first user message a title is made of.
TitleLength == 50

\* ChatService._sanitize_prompt(prompt).  The replacement of three newlines
\* and more does nothing to a text whose whitespace is collapsed.
sanitize_prompt(prompt) ==
    IF prompt = <<>>
    THEN prompt
    ELSE LET sanitized ==
                 filter_injections(html_escape(
                     collapse_whitespace(strip(prompt))))
         IN  IF CharLen(sanitized) > max_length
             THEN Slice(sanitized, max_length) \o <<"... [truncated]">>
             ELSE sanitized

\* ChatService._validate_prompt(prompt)
validate_prompt(prompt) ==
    IF prompt = <<>> \/ strip(prompt) = <<>>
    THEN FALSE
    ELSE IF CharLen(prompt) > MaxValidLength THEN FALSE ELSE TRUE

\* ChatMessage(role, content), and the row of a persisted message.
ChatMessage(role, content) == [role |-> role, content |-> content]

\* The messages lists given to send_conversation: at most MaxMessages
\* messages, of a user or of the assistant, the content empty or not.
MessageLists ==
    UNION {[1..k -> {ChatMessage(r, c) : r \in {"user", "assistant"},
                                         c \in {<<>>, <<"hi">>}}]
               : k \in 0..MaxMessages}

\* The conversation_id arguments: None (0), the first row, a row that does
\* not exist yet.
ConversationIds == 0..2

\* The content of the response of the model manager.
ResponseContent == <<"ok">>

\* A ChatService coroutine that has not been called.
IdleCall == [op |-> "none", pc |-> "idle", prompt |-> <<>>,
             conversation_id |-> 0, messages |-> <<>>, i |-> 0,
             conversation |-> [id |-> 0, title |-> None],
             request |-> <<>>, title |-> None, ret |-> "none",
             error |-> "none", calls |-> <<>>]

\* ------------------------------------------------------------------------
\* State
\* ------------------------------------------------------------------------

VARIABLES
    providers,        \* _providers: name -> class ("none" when absent)
    instances,        \* _instances: name -> object reference (NoObj when absent)
    plugin_modules,   \* _plugin_modules: the names that have a module path
    plugin_metadata,  \* _plugin_metadata: name -> object whose metadata is cached
    config_cache,     \* _config_cache: name -> optional configuration
    objs,             \* the provider objects: reference -> fields
    tasks,            \* the coroutines: position and local variables
    mgr_initialized,  \* ModelManager._initialized
    endpoint_maps,    \* the nested mappings of configurations: reference -> path
    stream,           \* the generator of one chat_completion_stream call
    chat              \* the conversation store and the ChatService calls

vars == <<providers, instances, plugin_modules, plugin_metadata, config_cache,
          objs, tasks, mgr_initialized, endpoint_maps, stream, chat>>

\* A free slot of the object store.
FreeObj == [life |-> "free", name |-> "none", config |-> CfgEmpty,
            inited |-> FALSE, reinit |-> FALSE, cls |-> "none",
            leaked |-> FALSE]

\* AbstractAIProvider.__init__: config kept, _initialized = False.
\* life, reinit and leaked are history: which lifecycle call ran last on the
\* object, whether _ensure_initialized has invoked initialize() on it, and
\* whether a session of it was replaced without being closed.
NewObj(n, cfg) == [life |-> "new", name |-> n, config |-> cfg,
                   inited |-> FALSE, reinit |-> FALSE, cls |-> "none",
                   leaked |-> FALSE]

\* OllamaProvider.get_default_model: self.default_model, set from the config.
get_default_model(o) == Get(o.config.default_model, DefaultModel)

\* The object holds a session (OllamaProvider._session is not None).
HasSession(o) == o.life \in {"ready", "closing"}

\* An exception: its class and str(e), a sequence of words.  NoErr stands
\* for no exception.
NoErr == [cls |-> "none", text |-> <<>>]

NoResults == [n \in Names |-> NoStatus]
NoOutcomes == [n \in Names |-> [raised |-> FALSE, status |-> NoStatus]]

\* A plugin directory: whether it exists, the names of the files of it
\* that match *_provider.py, and the ones of them that load.
NoDir == [exists |-> FALSE, files |-> {}, loads |-> {}]

IdleTask == [op |-> "idle", pc |-> "idle", name |-> "none", cfg |-> None,
             target |-> "none",
             obj |-> NoObj, old |-> NoObj, ret |-> "none", idx |-> 0,
             was_reg |-> FALSE, attempt |-> 0, got_life |-> "none",
             seen |-> {}, size0 |-> 0, disturbed |-> FALSE,
             results |-> NoResults, outcome |-> NoOutcomes,
             args |-> <<>>, model |-> None, err |-> NoErr, msg |-> <<>>,
             made |-> FALSE, dir |-> NoDir, discovered |-> <<>>]

\* A coroutine can start an operation.  A finished operation hands its
\* result to its caller before any other coroutine runs (returning from an
\* awaited coroutine does not go through the event loop).
Idle(t) == tasks[t].pc = "idle" /\ \A u \in Tasks : tasks[u].pc # "done"
Done(t) == tasks[t].pc = "done"

\* A suspended coroutine is resumed only from the event loop.
Resumable(t, pc) == tasks[t].pc = pc /\ \A u \in Tasks : tasks[u].pc # "done"

\* The reference held by cached metadata whose object no longer exists.
GoneRef == -1

\* The order in which the tables of the model are read.
NameSeq == <<"ollama", "echo">>
TaskSeq == <<"t1", "t2">>

\* Every reference the instance table or a coroutine holds, in a fixed order.
RefSeq(inst, tsk) ==
    [k \in 1..Len(NameSeq) |-> inst[NameSeq[k]]]
      \o [k \in 1..Len(TaskSeq) |-> tsk[TaskSeq[k]].obj]
      \o [k \in 1..Len(TaskSeq) |-> tsk[TaskSeq[k]].old]

\* References are names without meaning: the objects in use are numbered in
\* the order RefSeq meets them; an object nothing refers to is gone.
Renumbering(refs) ==
    LET live == {refs[k] : k \in DOMAIN refs} \ {NoObj}
        first == [i \in live |->
                    CHOOSE k \in DOMAIN refs :
                        refs[k] = i /\ \A j \in 1..(k - 1) : refs[j] # i]
    IN  [i \in GoneRef..MaxObjs |->
            IF i = NoObj THEN NoObj
            ELSE IF i \notin live THEN GoneRef
            ELSE Cardinality({j \in live : first[j] <= first[i]})]

Init ==
    /\ providers = [n \in Names |-> "none"]
    /\ instances = [n \in Names |-> NoObj]
    /\ plugin_modules = {}
    /\ plugin_metadata = [n \in Names |-> NoObj]
    /\ config_cache = [n \in Names |-> None]
    /\ objs = [i \in ObjIds |-> FreeObj]
    /\ tasks = [t \in Tasks |-> IdleTask]
    /\ mgr_initialized = FALSE
    /\ endpoint_maps = [m \in MapIds |-> "/api/generate"]
    /\ stream = NoStream
    /\ chat = [conversations |-> <<>>,
               calls |-> [t \in ChatTasks |-> IdleCall]]

\* ------------------------------------------------------------------------
\* Provider lifecycle (AbstractAIProvider, OllamaProvider)
\* ------------------------------------------------------------------------

\* initialize() returns: `self._session = aiohttp.ClientSession(...)`.  A
\* session the object held is dropped as it is, still open.
initialize_ok(o) == [o EXCEPT !.life = "ready", !.leaked = @ \/ HasSession(o)]

\* initialize() raises: no session is stored by this call.
initialize_raise(o) ==
    [o EXCEPT !.life = IF o.life = "initializing" THEN "failed" ELSE o.life]

\* shutdown() reaches `await self._session.close()`.
shutdown_begin(o) == [o EXCEPT !.life = "closing"]

\* shutdown() returns: `self._session = None`.
shutdown_ok(o) == [o EXCEPT !.life = "closed"]

\* reload(new_config) between its shutdown() and its initialize():
\* the new configuration is stored on the object.
reload_assign(o, cfg) == [o EXCEPT !.config = cfg, !.life = "initializing"]

\* ------------------------------------------------------------------------
\* Steps common to the actions
\* ------------------------------------------------------------------------

Finish(tk, ret) == [tk EXCEPT !.pc = "done", !.ret = ret]

\* A coroutine that is inside a `for ... in self._instances.items()` loop.
Iterating(tk) ==
    tk.op \in {"health_check_all", "shutdown_all"} /\ tk.pc # "done"

\* The step of task t ends: its own record, the instance table, the metadata
\* cache and the object store take their new values.  A loop over the
\* instance table that another coroutine is suspended in sees the table
\* change under it.
Commit(t, tk, o, inst, meta) ==
    \E tsk \in {[u \in Tasks |->
                   IF u = t THEN tk
                   ELSE IF inst # instances /\ Iterating(tasks[u])
                        THEN [tasks[u] EXCEPT !.disturbed = TRUE]
                        ELSE tasks[u]]} :
      \E ren \in {Renumbering(RefSeq(inst, tsk))} :
        /\ instances' = [n \in Names |-> ren[inst[n]]]
        /\ plugin_metadata' = [n \in Names |-> ren[meta[n]]]
        /\ tasks' = [u \in Tasks |->
                       [tsk[u] EXCEPT !.obj = ren[@], !.old = ren[@]]]
        /\ objs' = [r \in ObjIds |->
                      IF \E i \in ObjIds : ren[i] = r
                      THEN o[CHOOSE i \in ObjIds : ren[i] = r]
                      ELSE FreeObj]
        /\ UNCHANGED <<endpoint_maps, stream, chat>>

\* A step that leaves the metadata cache alone.
Step(t, tk, o, inst) == Commit(t, tk, o, inst, plugin_metadata)

\* ------------------------------------------------------------------------
\* ProviderRegistry.register / discover_plugins
\* ------------------------------------------------------------------------

\* attr_name.lower().replace("provider", "") names the class.
ClassOf(n) == IF n = "ollama" THEN "OllamaProvider" ELSE "EchoProvider"

\* The provider modules found in the plugin directory.
PluginFiles == {"echo"}

\* The instance of the name is dropped with the old class.
register_evicting(t, cls, n) ==
    /\ Idle(t)
    /\ providers' = [providers EXCEPT ![n] = cls]
    /\ instances' = [instances EXCEPT ![n] = NoObj]
    /\ UNCHANGED <<plugin_modules, plugin_metadata, config_cache,
                   objs, tasks, mgr_initialized, endpoint_maps, stream, chat>>

\* register(provider_class, name), without module path.
register(t, cls, n) ==
    /\ Idle(t)
    /\ providers' = [providers EXCEPT ![n] = cls]
    /\ UNCHANGED <<instances, plugin_modules, plugin_metadata, config_cache,
                   objs, tasks, mgr_initialized, endpoint_maps, stream, chat>>

\* The names of `found`, in the order of the directory listing from its
\* i-th entry on.
RECURSIVE discovered_list(_, _)
discovered_list(found, i) ==
    IF i > Len(NameSeq) THEN <<>>
    ELSE (IF NameSeq[i] \in found THEN <<NameSeq[i]>> ELSE <<>>)
             \o discovered_list(found, i + 1)

\* The files of the directory whose provider class is registered: the files
\* after the first one that raises while loading are not looked at.
loaded_files_abort(dir) ==
    IF ~dir.exists THEN {}
    ELSE {n \in dir.loads :
            \A i, j \in 1..Len(NameSeq) :
                (NameSeq[j] = n /\ i < j /\ NameSeq[i] \in dir.files)
                    => NameSeq[i] \in dir.loads}

\* The files of the directory whose provider class is registered: none when
\* the directory does not exist, else every file that loads; a file that
\* raises while loading is logged and skipped.
loaded_files(dir) == IF dir.exists THEN dir.loads ELSE {}

\* discover_plugins(plugin_directory): the class of every file that loads is
\* registered with its module path, and the names are returned.
discover_plugins(t, dir) ==
    LET found == loaded_files(dir)
        tk == [tasks[t] EXCEPT !.op = "discover_plugins", !.dir = dir,
                               !.discovered = discovered_list(found, 1)]
    IN  /\ Idle(t)
        /\ providers' = [n \in Names |->
                           IF n \in found THEN ClassOf(n) ELSE providers[n]]
        /\ plugin_modules' = plugin_modules \cup found
        /\ UNCHANGED <<config_cache, mgr_initialized>>
        /\ Step(t, Finish(tk, "ok"), objs, instances)

\* ------------------------------------------------------------------------
\* ProviderRegistry.create_instance
\* ------------------------------------------------------------------------

\* The existing instance is not looked at: every call creates.
has_instance_never(inst, n) == FALSE

\* `provider_name not in self._instances` is false: the call is memoized.
has_instance(inst, n) == inst[n] # NoObj

\* The synchronous head of create_instance, up to `await
\* instance.initialize()`: what the call does next.
create_decision(prov, inst, n, cfg, ctor_ok) ==
    IF prov[n] = "none" THEN "err_unknown"
    ELSE IF has_instance(inst, n) THEN "existing"
    ELSE IF ~ctor_ok THEN "err_ctor"
    ELSE IF ~validate_config(cfg) THEN "err_invalid"
    ELSE "initialize"

\* The head of create_instance run by task record tk on tables prov, inst
\* and object store o.  res is "await" when the call is suspended in
\* initialize(), "ok" when it returned inst[n], else the error it raised.
create_enter(tk, o, prov, inst, n, cfg, ctor_ok) ==
    LET d == create_decision(prov, inst, n, cfg, ctor_ok)
        free == {i \in ObjIds : o[i].life = "free"}
        id == IF free = {} THEN NoObj
              ELSE CHOOSE i \in free : \A j \in free : i <= j
    IN  IF d = "initialize"
        THEN [task |-> [tk EXCEPT !.pc = "create_init", !.name = n,
                                  !.obj = id, !.made = TRUE],
              objs |-> IF id = NoObj THEN o
                       ELSE [o EXCEPT ![id] =
                               [NewObj(n, cfg) EXCEPT !.life = "initializing",
                                                      !.cls = prov[n]]],
              res |-> "await", blocked |-> id = NoObj]
        ELSE IF d = "existing"
        THEN [task |-> [tk EXCEPT !.name = n, !.obj = inst[n]],
              objs |-> o, res |-> "ok", blocked |-> FALSE]
        ELSE [task |-> [tk EXCEPT !.name = n, !.obj = NoObj],
              objs |-> o, res |-> d, blocked |-> FALSE]

\* The keys of settings.ai_providers, in the order of the mapping; "default"
\* names the default provider and has no configuration behind it.
AiProviderKeys == <<"default", "ollama", "echo">>

\* The configured providers: settings.ai_providers without the reserved
\* "default" key, in the order of the mapping.
ConfiguredSeq == <<"ollama", "echo">>
ai_providers(n) == IF n = "ollama" THEN CfgA ELSE CfgEmpty
default_provider == "ollama"

\* tenacity's stop_after_attempt(3)
MaxAttempts == 3

\* Bound on the items the iterator of a changed table is followed for.
MaxShutdowns == 3

\* retry_if_exception_type((ConnectionError, TimeoutError, OSError))
TransientClasses == {"ConnectionError", "TimeoutError", "OSError"}
is_transient(e) == e.cls \in TransientClasses

\* str.lower(), word by word.  No word of the texts below has a phrase of
\* classify as a proper part, so matching words is matching substrings.
LowerWord(w) ==
    CASE w = "Authentication" -> "authentication"
      [] w = "API" -> "api"
      [] w = "Rate" -> "rate"
      [] w = "Connection" -> "connection"
      [] w = "Model" -> "model"
      [] w = "Cannot" -> "cannot"
      [] w = "Ollama" -> "ollama"
      [] w = "Invalid" -> "invalid"
      [] w = "Request" -> "request"
      [] OTHER -> w

lower(text) == [i \in DOMAIN text |-> LowerWord(text[i])]

\* `phrase in text`
contains(text, phrase) ==
    \E i \in 1..(Len(text) - Len(phrase) + 1) :
        SubSeq(text, i, i + Len(phrase) - 1) = phrase

\* The text is matched as it is, not lower-cased.
classify_case_sensitive(e) ==
    LET text == e.text
    IN  IF contains(text, <<"authentication">>)
             \/ contains(text, <<"api", "key">>)
        THEN "err_authentication"
        ELSE IF contains(text, <<"rate", "limit">>)
                  \/ contains(text, <<"quota">>)
        THEN "err_rate_limit"
        ELSE IF contains(text, <<"connection">>)
                  \/ contains(text, <<"timeout">>)
        THEN "err_connection"
        ELSE IF contains(text, <<"model">>)
                  /\ contains(text, <<"not", "found">>)
        THEN "err_model_not_found"
        ELSE "err_request_failed"

\* The except block of ModelManager.chat_completion: the kind of the error
\* it raises for the upstream exception e.
classify(e) ==
    LET text == lower(e.text)
    IN  IF contains(text, <<"authentication">>)
             \/ contains(text, <<"api", "key">>)
        THEN "err_authentication"
        ELSE IF contains(text, <<"rate", "limit">>)
                  \/ contains(text, <<"quota">>)
        THEN "err_rate_limit"
        ELSE IF contains(text, <<"connection">>)
                  \/ contains(text, <<"timeout">>)
        THEN "err_connection"
        ELSE IF contains(text, <<"model">>)
                  /\ contains(text, <<"not", "found">>)
        THEN "err_model_not_found"
        ELSE "err_request_failed"

\* The text of e that the raised error carries: the catch-all error quotes
\* str(e), the others name the provider only.
carried_text(e) == IF classify(e) = "err_request_failed" THEN e.text ELSE <<>>

\* RuntimeError("Ollama session not initialized")
NoSessionError ==
    [cls |-> "RuntimeError",
     text |-> <<"Ollama", "session", "not", "initialized">>]

\* Exceptions a provider's chat_completion can raise.
ErrRefused == [cls |-> "ConnectionError", text |-> <<"Connection", "refused">>]
ErrUnreachable == [cls |-> "OSError", text |-> <<"network", "unreachable">>]
ErrTimedOut == [cls |-> "TimeoutError", text |-> <<>>]
ErrBadKey == [cls |-> "ValueError", text |-> <<"Invalid", "API", "key">>]
ErrQuotaAuth ==
    [cls |-> "Exception",
     text |-> <<"quota", "exceeded", "Authentication", "required">>]
ErrRateConn ==
    [cls |-> "Exception", text |-> <<"Rate", "limit", "on", "connection">>]
ErrNoModel ==
    [cls |-> "Exception", text |-> <<"Model", "m2", "not", "found">>]
ErrModelBusy == [cls |-> "Exception", text |-> <<"model", "overloaded">>]
ErrCannotConnect ==
    [cls |-> "Exception", text |-> <<"Cannot", "connect", "to", "Ollama">>]

ChatErrors ==
    {ErrRefused, ErrUnreachable, ErrTimedOut, ErrBadKey, ErrQuotaAuth,
     ErrRateConn, ErrNoModel, ErrModelBusy, ErrCannotConnect}

\* What the upstream HTTP call of the Ollama provider can fail with:
\* aiohttp.ClientConnectorError (connection refused), asyncio.TimeoutError,
\* and another OSError of the transport.
UpConnectorError ==
    [cls |-> "ClientConnectorError",
     text |-> <<"Cannot", "connect", "to", "host">>]
UpTimeout == [cls |-> "TimeoutError", text |-> <<>>]
UpReset ==
    [cls |-> "OSError", text |-> <<"Connection", "reset", "by", "peer">>]
UpstreamFailures == {UpConnectorError, UpTimeout, UpReset}

\* Exception("Request to Ollama timed out")
ErrRequestTimedOut ==
    [cls |-> "Exception",
     text |-> <<"Request", "to", "Ollama", "timed", "out">>]

\* The except clauses of OllamaProvider._generate_completion and
\* _chat_completion: what the provider raises for the upstream failure e.
ollama_raises(e) ==
    IF e.cls = "ClientConnectorError" THEN ErrCannotConnect
    ELSE IF e.cls = "TimeoutError" THEN ErrRequestTimedOut
    ELSE e

\* The exceptions the Ollama provider's chat_completion raises for the
\* failures of its upstream call.
OllamaErrors == {ollama_raises(e) : e \in UpstreamFailures}

\* No error is retried.
chat_failed_never_retry(tk, e) ==
    [Finish(tk, classify(e)) EXCEPT !.err = e, !.msg = carried_text(e)]

\* Every error is retried, whatever its class.
chat_failed_retry_all(tk, e) ==
    IF tk.attempt < MaxAttempts
    THEN [tk EXCEPT !.pc = "chat_backoff", !.err = e]
    ELSE [Finish(tk, classify(e)) EXCEPT !.err = e, !.msg = carried_text(e)]

\* The budget is compared after the attempt it should have stopped.
chat_failed_one_more(tk, e) ==
    IF is_transient(e) /\ tk.attempt <= MaxAttempts
    THEN [tk EXCEPT !.pc = "chat_backoff", !.err = e]
    ELSE [Finish(tk, classify(e)) EXCEPT !.err = e, !.msg = carried_text(e)]

\* The retry wrapper after an attempt raised e: a transient error is retried
\* after a backoff sleep while the attempt budget lasts; any other error, and
\* the last transient one, leaves chat_completion reclassified.
chat_failed(tk, e) ==
    IF is_transient(e) /\ tk.attempt < MaxAttempts
    THEN [tk EXCEPT !.pc = "chat_backoff", !.err = e]
    ELSE [Finish(tk, classify(e)) EXCEPT !.err = e, !.msg = carried_text(e)]

\* The provider's default model replaces whatever the caller asked for.
fill_model_always(model, o) == Some(get_default_model(o))

\* `if not request.model: request.model = provider.get_default_model()`
fill_model(model, o) ==
    IF model = None \/ model[1] = "" THEN Some(get_default_model(o))
    ELSE model

\* `await provider.chat_completion(request)` up to its first await:
\* _ensure_initialized calls initialize() when _initialized is unset, else
\* the request goes upstream if there is a session to send it on.
chat_attempt(tk, o) ==
    LET p == tk.obj
    IN  IF ~o[p].inited
        THEN [task |-> [tk EXCEPT !.pc = "chat_init"],
              objs |-> [o EXCEPT ![p].reinit = TRUE]]
        ELSE IF ~HasSession(o[p])
        THEN [task |-> chat_failed(tk, NoSessionError), objs |-> o]
        ELSE [task |-> [tk EXCEPT !.pc = "chat_call"], objs |-> o]

\* ModelManager.chat_completion after `await self.initialize_providers()`:
\* the instance is looked up and the first attempt starts.
chat_route(tk, o, inst) ==
    LET provider == inst[tk.name]
    IN  IF provider = NoObj
        THEN [task |-> Finish(tk, "err_not_available"), objs |-> o]
        ELSE chat_attempt([tk EXCEPT !.obj = provider, !.attempt = 1,
                                     !.got_life = o[provider].life,
                                     !.model = fill_model(@, o[provider])],
                          o)

\* The loop of initialize_providers from the i-th configured provider on,
\* run by task record tk: create_instance for each name, an exception of it
\* logged.  Gives the task record and object store at the next await or at
\* the end, where _initialized is set and the caller goes on.
RECURSIVE init_loop(_, _, _, _)
init_loop(tk, o, inst, i) ==
    IF i > Len(AiProviderKeys)
    THEN IF tk.op = "chat_completion"
         THEN [chat_route([tk EXCEPT !.name = tk.target, !.idx = 0,
                                     !.obj = NoObj], o, inst)
                 EXCEPT !.task.target = "none"]
                 @@ [set |-> TRUE, blocked |-> FALSE]
         ELSE [task |-> Finish([tk EXCEPT !.idx = 0, !.obj = NoObj,
                                          !.name = "none"], "ok"),
               objs |-> o, set |-> TRUE, blocked |-> FALSE]
    ELSE IF AiProviderKeys[i] = "default"
    THEN init_loop(tk, o, inst, i + 1)
    ELSE LET n == AiProviderKeys[i]
             tk2 == [tk EXCEPT !.seen = @ \cup {n}]
             r == create_enter([tk2 EXCEPT !.idx = i], o, providers, inst,
                               n, ai_providers(n), TRUE)
         IN  IF r.res = "await"
             THEN [task |-> r.task, objs |-> r.objs, set |-> FALSE,
                   blocked |-> r.blocked]
             ELSE init_loop(tk2, o, inst, i + 1)

\* An exception of create_instance leaves initialize_providers.
after_create_abort(tk, res, o, inst) ==
    IF tk.op \in {"initialize_providers", "chat_completion"}
    THEN IF res = "ok" THEN init_loop(tk, o, inst, tk.idx + 1)
         ELSE [task |-> Finish(tk, res), objs |-> o, set |-> FALSE,
               blocked |-> FALSE]
    ELSE [task |-> IF tk.op = "reload_provider"
                   THEN Finish(tk, IF res = "ok" THEN "true" ELSE "false")
                   ELSE Finish(tk, res),
          objs |-> o, set |-> FALSE, blocked |-> FALSE]

\* create_instance returned (res = "ok") or raised (an err_ value) inside the
\* operation of tk: what its caller does with it, up to the next await.
after_create(tk, res, o, inst) ==
    IF tk.op \in {"initialize_providers", "chat_completion"}
    THEN init_loop(tk, o, inst, tk.idx + 1)
    ELSE [task |-> IF tk.op = "reload_provider"
                   THEN Finish(tk, IF res = "ok" THEN "true" ELSE "false")
                   ELSE Finish(tk, res),
          objs |-> o, set |-> FALSE, blocked |-> FALSE]

create_instance(t, n, cfg, ctor_ok) ==
    /\ Idle(t)
    /\ \E r \in {create_enter([tasks[t] EXCEPT !.op = "create_instance",
                                               !.cfg = Some(cfg)],
                              objs, providers, instances, n, cfg, ctor_ok)} :
           /\ ~r.blocked
           /\ UNCHANGED <<providers, plugin_modules, config_cache,
                          mgr_initialized>>
           /\ Step(t, IF r.res = "await" THEN [r.task EXCEPT !.cfg = None]
                      ELSE Finish(r.task, r.res),
                   r.objs, instances)

\* The instance is stored although initialize() raised.
instances_after_init_always(ok, n, id) == [instances EXCEPT ![n] = id]

\* The tables after `await instance.initialize()`: an exception leaves
\* create_instance before anything is stored.
instances_after_init(ok, n, id) ==
    IF ok THEN [instances EXCEPT ![n] = id] ELSE instances

config_cache_after_init(ok, n, cfg) ==
    IF ok THEN [config_cache EXCEPT ![n] = Some(cfg)] ELSE config_cache

plugin_metadata_after_init(ok, n, id) ==
    IF ok THEN [plugin_metadata EXCEPT ![n] = id] ELSE plugin_metadata

\* `await instance.initialize()` of create_instance completes.
create_initialized(t, ok) ==
    LET tk == tasks[t]
        id == tk.obj
        n == tk.name
        o2 == [objs EXCEPT ![id] = IF ok THEN initialize_ok(@)
                                   ELSE initialize_raise(@)]
        inst2 == instances_after_init(ok, n, id)
    IN  /\ Resumable(t, "create_init")
        /\ config_cache' = config_cache_after_init(ok, n, objs[id].config)
        /\ UNCHANGED <<providers, plugin_modules>>
        /\ \E r \in {after_create([tk EXCEPT !.obj = IF ok THEN id ELSE NoObj,
                                              !.old = IF ok /\ tk.op = "create_instance"
                                                      THEN instances[n] ELSE @],
                                  IF ok THEN "ok" ELSE "err_init",
                                  o2, inst2)} :
              /\ ~r.blocked
              /\ mgr_initialized' = (mgr_initialized \/ r.set)
              /\ Commit(t, r.task, r.objs, inst2,
                        plugin_metadata_after_init(ok, n, id))

\* ------------------------------------------------------------------------
\* ProviderRegistry.reload_provider
\* ------------------------------------------------------------------------

\* `config = new_config or self._config_cache.get(provider_name, {})`
effective_config(new_config, n) ==
    IF new_config # None /\ Truthy(new_config[1]) THEN new_config[1]
    ELSE Get(config_cache[n], CfgEmpty)

\* _reload_module runs only for a name that has a module path; it raises when
\* the module cannot be loaded again.
reload_module_raises(n, module_ok) == n \in plugin_modules /\ ~module_ok

\* reload_provider up to its first await.
reload_provider(t, n, new_config, module_ok, ctor_ok) ==
    LET tk == [tasks[t] EXCEPT !.op = "reload_provider", !.name = n,
                               !.args = <<new_config>>,
                               !.old = instances[n]]
        existing == instances[n]
        config == effective_config(new_config, n)
        inst2 == [instances EXCEPT ![n] = NoObj]
        r == create_enter(tk, objs, providers, inst2, n, config, ctor_ok)
    IN  /\ Idle(t)
        /\ UNCHANGED <<providers, plugin_modules,
                       config_cache, mgr_initialized>>
        /\ IF providers[n] = "none"
           THEN Step(t, Finish([tk EXCEPT !.old = NoObj], "false"),
                       objs, instances)
           ELSE IF reload_module_raises(n, module_ok)
           THEN Step(t, Finish(tk, "false"), objs, instances)
           ELSE IF existing # NoObj /\ HasSession(objs[existing])
           THEN Step(t, [tk EXCEPT !.pc = "reload_shutdown",
                                     !.cfg = Some(config)],
                       [objs EXCEPT ![existing] = shutdown_begin(@)],
                       instances)
           ELSE /\ ~r.blocked
                /\ Step(t, IF r.res = "await" THEN r.task
                           ELSE Finish(r.task, IF r.res = "ok" THEN "true"
                                               ELSE "false"),
                        r.objs, inst2)

\* An exception of the old instance's shutdown() ends reload_provider with
\* false, the instance table as it was.
reload_shutdown_done_abort(t, ok, ctor_ok) ==
    LET tk == tasks[t]
        n == tk.name
        o2 == IF ok THEN [objs EXCEPT ![tk.old] = shutdown_ok(@)] ELSE objs
        inst2 == [instances EXCEPT ![n] = NoObj]
        r == create_enter([tk EXCEPT !.cfg = None], o2, providers, inst2, n,
                          tk.cfg[1], ctor_ok)
    IN  /\ Resumable(t, "reload_shutdown")
        /\ UNCHANGED <<providers, plugin_modules,
                       config_cache, mgr_initialized>>
        /\ IF instances[n] = NoObj \/ ~ok
           THEN Step(t, Finish([tk EXCEPT !.cfg = None], "false"),
                       o2, instances)
           ELSE /\ ~r.blocked
                /\ Step(t, IF r.res = "await" THEN r.task
                           ELSE Finish(r.task, IF r.res = "ok" THEN "true"
                                               ELSE "false"),
                        r.objs, inst2)

\* `await existing_instance.shutdown()` of reload_provider completes; an
\* exception of it is logged.  Then the entry is deleted (KeyError when it is
\* no longer there) and create_instance is entered.
reload_shutdown_done(t, ok, ctor_ok) ==
    LET tk == tasks[t]
        n == tk.name
        o2 == IF ok THEN [objs EXCEPT ![tk.old] = shutdown_ok(@)] ELSE objs
        inst2 == [instances EXCEPT ![n] = NoObj]
        r == create_enter([tk EXCEPT !.cfg = None], o2, providers, inst2, n,
                          tk.cfg[1], ctor_ok)
    IN  /\ Resumable(t, "reload_shutdown")
        /\ UNCHANGED <<providers, plugin_modules,
                       config_cache, mgr_initialized>>
        /\ IF instances[n] = NoObj
           THEN Step(t, Finish([tk EXCEPT !.cfg = None], "false"),
                       o2, instances)
           ELSE /\ ~r.blocked
                /\ Step(t, IF r.res = "await" THEN r.task
                           ELSE Finish(r.task, IF r.res = "ok" THEN "true"
                                               ELSE "false"),
                        r.objs, inst2)

\* ------------------------------------------------------------------------
\* ProviderRegistry.update_provider_config, with the provider's reload()
\* ------------------------------------------------------------------------

update_provider_config(t, n, cfg) ==
    LET tk == [tasks[t] EXCEPT !.op = "update_provider_config", !.name = n,
                               !.args = <<cfg>>]
        instance == instances[n]
    IN  /\ Idle(t)
        /\ UNCHANGED <<providers, plugin_modules,
                       config_cache, mgr_initialized>>
        /\ IF instance = NoObj \/ ~validate_config(cfg)
           THEN Step(t, Finish(tk, "false"), objs, instances)
           ELSE IF HasSession(objs[instance])
           THEN Step(t, [tk EXCEPT !.pc = "update_shutdown",
                                     !.obj = instance, !.cfg = Some(cfg)],
                       [objs EXCEPT ![instance] = shutdown_begin(@)],
                       instances)
           ELSE Step(t, [tk EXCEPT !.pc = "update_init",
                                     !.obj = instance, !.cfg = Some(cfg)],
                       [objs EXCEPT ![instance] = reload_assign(@, cfg)],
                       instances)

\* reload(): `await self.shutdown()` completes.  An exception leaves reload
\* and update_provider_config returns False.
update_shutdown_done(t, ok) ==
    LET tk == tasks[t]
    IN  /\ Resumable(t, "update_shutdown")
        /\ UNCHANGED <<providers, plugin_modules,
                       config_cache, mgr_initialized>>
        /\ IF ok
           THEN Step(t, [tk EXCEPT !.pc = "update_init"],
                       [objs EXCEPT ![tk.obj] =
                           reload_assign(shutdown_ok(@), tk.cfg[1])],
                       instances)
           ELSE Step(t, Finish([tk EXCEPT !.cfg = None], "false"),
                       objs, instances)

\* The configuration is cached although reload() raised.
config_cache_after_reload_always(ok, n, cfg) ==
    [config_cache EXCEPT ![n] = Some(cfg)]

\* `self._config_cache[provider_name] = new_config.copy()` runs only when
\* reload() returned.
config_cache_after_reload(ok, n, cfg) ==
    IF ok THEN [config_cache EXCEPT ![n] = Some(cfg)] ELSE config_cache

\* reload(): `await self.initialize()` completes.
update_init_done(t, ok) ==
    LET tk == tasks[t]
    IN  /\ Resumable(t, "update_init")
        /\ config_cache' = config_cache_after_reload(ok, tk.name, tk.cfg[1])
        /\ UNCHANGED <<providers, plugin_modules,
                       mgr_initialized>>
        /\ Step(t, Finish([tk EXCEPT !.cfg = None],
                            IF ok THEN "true" ELSE "false"),
                  [objs EXCEPT ![tk.obj] = IF ok THEN initialize_ok(@)
                                           ELSE initialize_raise(@)],
                  instances)

\* ------------------------------------------------------------------------
\* ProviderRegistry.unregister_provider
\* ------------------------------------------------------------------------

\* The value unregister_provider returns when no exception was raised.
unregister_result(was_registered) == "true"

\* "Remove from registry": every table loses the name.
unregister_remove(t, tk, o) ==
    LET n == tk.name
    IN  /\ providers' = [providers EXCEPT ![n] = "none"]
        /\ plugin_modules' = plugin_modules \ {n}
        /\ config_cache' = [config_cache EXCEPT ![n] = None]
        /\ UNCHANGED mgr_initialized
        /\ Commit(t, Finish(tk, unregister_result(tk.was_reg)), o,
                  [instances EXCEPT ![n] = NoObj],
                  [plugin_metadata EXCEPT ![n] = NoObj])

unregister_provider(t, n) ==
    LET instance == instances[n]
        tk == [tasks[t] EXCEPT !.op = "unregister_provider", !.name = n,
                               !.old = instance,
                               !.was_reg = providers[n] # "none"]
    IN  /\ Idle(t)
        /\ IF instance # NoObj /\ HasSession(objs[instance])
           THEN /\ UNCHANGED <<providers, plugin_modules,
                               config_cache, mgr_initialized>>
                /\ Step(t, [tk EXCEPT !.pc = "unregister_shutdown"],
                          [objs EXCEPT ![instance] = shutdown_begin(@)],
                          instances)
           ELSE unregister_remove(t, tk, objs)

\* `await instance.shutdown()` of unregister_provider completes.  An
\* exception of it, or the KeyError of `del self._instances[provider_name]`,
\* ends the call with False before anything is removed.
unregister_shutdown_done(t, ok) ==
    LET tk == tasks[t]
    IN  /\ Resumable(t, "unregister_shutdown")
        /\ IF ~ok
           THEN /\ UNCHANGED <<providers, plugin_modules,
                               config_cache, mgr_initialized>>
                /\ Step(t, Finish(tk, "false"), objs, instances)
           ELSE IF instances[tk.name] = NoObj
           THEN /\ UNCHANGED <<providers, plugin_modules,
                               config_cache, mgr_initialized>>
                /\ Step(t, Finish(tk, "false"),
                          [objs EXCEPT ![tk.old] = shutdown_ok(@)], instances)
           ELSE unregister_remove(t, tk,
                                  [objs EXCEPT ![tk.old] = shutdown_ok(@)])

\* ------------------------------------------------------------------------
\* ProviderRegistry.health_check_all
\* ------------------------------------------------------------------------

InstNames(inst) == {n \in Names : inst[n] # NoObj}

\* The body of the loop for the item (n, inst[n]), up to its first await:
\* _ensure_initialized calls initialize() when _initialized is unset.
health_body(tk, o, inst, n) ==
    LET p == inst[n]
    IN  IF ~o[p].inited
        THEN [task |-> [tk EXCEPT !.pc = "health_init", !.name = n, !.obj = p,
                                  !.seen = @ \cup {n}],
              objs |-> [o EXCEPT ![p].reinit = TRUE]]
        ELSE [task |-> [tk EXCEPT !.pc = "health_check", !.name = n,
                                  !.obj = p, !.seen = @ \cup {n}],
              objs |-> o]

\* The `for name, provider in self._instances.items()` header asks the
\* iterator for its next item.  The iterator raises RuntimeError when the
\* table has another size than at the start of the loop.  On a table that
\* changed and has its old size again, what the iterator does depends on the
\* layout of the dict: it may yield any item, stop or raise (pick).
health_next(tk, o, inst, pick) ==
    LET rest == InstNames(inst) \ tk.seen
        end == [task |-> Finish([tk EXCEPT !.name = "none", !.obj = NoObj],
                                "ok"),
                objs |-> o, valid |-> TRUE]
        raise == [task |-> Finish([tk EXCEPT !.name = "none", !.obj = NoObj],
                                  "raised"),
                  objs |-> o, valid |-> TRUE]
    IN  IF Cardinality(InstNames(inst)) # tk.size0 THEN raise
        ELSE IF ~tk.disturbed
        THEN IF rest = {} THEN end
             ELSE IF pick \in rest
             THEN health_body(tk, o, inst, pick) @@ [valid |-> TRUE]
             ELSE [end EXCEPT !.valid = (pick = CHOOSE n \in rest : TRUE)]
        ELSE IF pick = "stop" THEN end
        ELSE IF pick = "raise" THEN raise
        ELSE IF pick \in InstNames(inst)
        THEN health_body(tk, o, inst, pick) @@ [valid |-> TRUE]
        ELSE [end EXCEPT !.valid = FALSE]

Picks == Names \cup {"stop", "raise"}

health_check_all(t, pick) ==
    LET tk == [tasks[t] EXCEPT !.op = "health_check_all",
                               !.size0 = Cardinality(InstNames(instances))]
    IN  /\ Idle(t)
        /\ UNCHANGED <<providers, plugin_modules, config_cache,
                       mgr_initialized>>
        /\ \E r \in {health_next(tk, objs, instances, pick)} :
              /\ r.valid
              /\ pick \in Names \/ InstNames(instances) = {}
              /\ Step(t, r.task, r.objs, instances)

\* `await provider._ensure_initialized()` completes: initialize() returned
\* and _initialized is set, or it raised err and the status is synthesized.
health_init_done(t, ok, err, pick) ==
    LET tk == tasks[t]
        p == tk.obj
        n == tk.name
        tk2 == [tk EXCEPT !.results[n] = synth_status(err),
                          !.outcome[n] = [raised |-> TRUE,
                                          status |-> [available |-> FALSE,
                                                      error |-> err]]]
    IN  /\ Resumable(t, "health_init")
        /\ UNCHANGED <<providers, plugin_modules, config_cache,
                       mgr_initialized>>
        /\ IF ok
           THEN /\ pick = "stop" /\ err = "boom"
                /\ objs' = [objs EXCEPT ![p] =
                              [initialize_ok(@) EXCEPT !.inited = TRUE]]
                /\ tasks' = [tasks EXCEPT ![t].pc = "health_check"]
                /\ UNCHANGED <<instances, plugin_metadata, endpoint_maps, stream, chat>>
           ELSE \E r \in {health_next(tk2, [objs EXCEPT ![p] =
                                               initialize_raise(@)],
                                      instances, pick)} :
                   /\ r.valid
                   /\ Step(t, r.task, r.objs, instances)

\* What `await provider.health_check()` can give: a status, or an exception
\* with text e (available is then not a status of the provider).
HealthOutcomes ==
    {[raised |-> FALSE, status |-> st] : st \in {StatusUp, StatusDown}}
      \cup {[raised |-> TRUE, status |-> [available |-> FALSE, error |-> e]] :
              e \in ErrTexts}

\* `results[name] = ...` of the try block or of the except block.
health_result(out) ==
    IF out.raised THEN synth_status(out.status.error) ELSE out.status

\* `await provider.health_check()` completes.
health_check_done(t, out, pick) ==
    LET tk == tasks[t]
        n == tk.name
        tk2 == [tk EXCEPT !.results[n] = health_result(out),
                          !.outcome[n] = out]
    IN  /\ Resumable(t, "health_check")
        /\ UNCHANGED <<providers, plugin_modules, config_cache,
                       mgr_initialized>>
        /\ \E r \in {health_next(tk2, objs, instances, pick)} :
              /\ r.valid
              /\ Step(t, r.task, r.objs, instances)

\* ------------------------------------------------------------------------
\* ProviderRegistry.shutdown_all
\* ------------------------------------------------------------------------

\* What the iterator of the loop gives, one pick for each time it is asked
\* before the next await.
PickSeqs == {<<a, b>> : a \in Picks, b \in Picks}

\* The loop of shutdown_all from its header on, up to the next await or to
\* its end.  The iterator behaves as in health_check_all.  shutdown() of an
\* instance that holds a session is suspended in the close of the session;
\* shutdown() of an instance without session returns at once.  After the
\* loop the instance table is cleared; a RuntimeError of the iterator leaves
\* shutdown_all before that.  seen and idx are history: the names shutdown()
\* was invoked for, and the number of invocations.
RECURSIVE shutdown_next(_, _, _, _)
shutdown_next(tk, o, inst, picks) ==
    LET rest == InstNames(inst) \ tk.seen
        pick == IF picks = <<>> THEN "stop" ELSE Head(picks)
        end == [task |-> Finish([tk EXCEPT !.name = "none", !.obj = NoObj],
                                "ok"),
                objs |-> o, inst |-> [n \in Names |-> NoObj],
                valid |-> TRUE]
        raise == [task |-> Finish([tk EXCEPT !.name = "none", !.obj = NoObj],
                                  "raised"),
                  objs |-> o, inst |-> inst, valid |-> TRUE]
        item(n) ==
            LET q == inst[n]
                tk2 == [tk EXCEPT !.name = n, !.obj = q,
                                  !.seen = @ \cup {n}, !.idx = @ + 1]
            IN  IF HasSession(o[q])
                THEN [task |-> [tk2 EXCEPT !.pc = "shutdown_all_wait"],
                      objs |-> [o EXCEPT ![q] = shutdown_begin(@)],
                      inst |-> inst, valid |-> TRUE]
                ELSE shutdown_next(tk2, o, inst, Tail(picks))
    IN  IF Cardinality(InstNames(inst)) # tk.size0 THEN raise
        ELSE IF ~tk.disturbed
        THEN IF rest = {} THEN end
             ELSE IF pick \in rest THEN item(pick)
             ELSE [end EXCEPT !.valid = FALSE]
        ELSE IF pick = "stop" THEN end
        ELSE IF pick = "raise" THEN raise
        ELSE IF pick \in InstNames(inst) /\ tk.idx < MaxShutdowns
        THEN item(pick)
        ELSE [end EXCEPT !.valid = FALSE]

shutdown_all(t, picks) ==
    LET tk == [tasks[t] EXCEPT !.op = "shutdown_all",
                               !.size0 = Cardinality(InstNames(instances))]
    IN  /\ Idle(t)
        /\ UNCHANGED <<providers, plugin_modules, config_cache,
                       mgr_initialized>>
        /\ \E r \in {shutdown_next(tk, objs, instances, picks)} :
              /\ r.valid
              /\ Step(t, r.task, r.objs, r.inst)

\* An exception of shutdown() leaves shutdown_all.
after_shutdown_abort(tk, ok, o, inst, picks) ==
    IF ok
    THEN shutdown_next(tk, [o EXCEPT ![tk.obj] = shutdown_ok(@)], inst, picks)
    ELSE [task |-> Finish([tk EXCEPT !.outcome[tk.name].raised = TRUE],
                          "raised"),
          objs |-> o, inst |-> inst, valid |-> TRUE]

\* `await instance.shutdown()` returned (ok) or raised, which is logged: the
\* loop goes on.  outcome is history: the names whose shutdown() raised.
after_shutdown(tk, ok, o, inst, picks) ==
    IF ok
    THEN shutdown_next(tk, [o EXCEPT ![tk.obj] = shutdown_ok(@)], inst, picks)
    ELSE shutdown_next([tk EXCEPT !.outcome[tk.name].raised = TRUE],
                       o, inst, picks)

\* `await instance.shutdown()` of shutdown_all completes.
shutdown_all_done(t, ok, picks) ==
    /\ Resumable(t, "shutdown_all_wait")
    /\ UNCHANGED <<providers, plugin_modules, config_cache, mgr_initialized>>
    /\ \E r \in {after_shutdown(tasks[t], ok, objs, instances, picks)} :
          /\ r.valid
          /\ Step(t, r.task, r.objs, r.inst)

\* ------------------------------------------------------------------------
\* ModelManager.initialize_providers, ModelManager.chat_completion
\* ------------------------------------------------------------------------

initialize_providers(t) ==
    LET tk == [tasks[t] EXCEPT !.op = "initialize_providers"]
    IN  /\ Idle(t)
        /\ UNCHANGED <<providers, plugin_modules, config_cache>>
        /\ IF mgr_initialized
           THEN /\ UNCHANGED mgr_initialized
                /\ Step(t, Finish(tk, "ok"), objs, instances)
           ELSE \E r \in {init_loop(tk, objs, instances, 1)} :
                   /\ ~r.blocked
                   /\ mgr_initialized' = r.set
                   /\ Step(t, r.task, r.objs, instances)

\* An absent name falls back to the last configured provider.
resolve_provider_last(pn) ==
    IF pn = None \/ pn[1] = "" THEN ConfiguredSeq[Len(ConfiguredSeq)]
    ELSE pn[1]

\* `provider_name or self.default_provider`
resolve_provider(pn) ==
    IF pn = None \/ pn[1] = "" THEN default_provider ELSE pn[1]

chat_completion(t, pn, model) ==
    LET tk == [tasks[t] EXCEPT !.op = "chat_completion",
                               !.args = <<pn, model>>, !.model = model,
                               !.target = resolve_provider(pn)]
    IN  /\ Idle(t)
        /\ UNCHANGED <<providers, plugin_modules, config_cache>>
        /\ IF mgr_initialized
           THEN \E r \in {chat_route([tk EXCEPT !.name = tk.target,
                                                !.target = "none"],
                                     objs, instances)} :
                   /\ UNCHANGED mgr_initialized
                   /\ Step(t, r.task, r.objs, instances)
           ELSE \E r \in {init_loop(tk, objs, instances, 1)} :
                   /\ ~r.blocked
                   /\ mgr_initialized' = r.set
                   /\ Step(t, r.task, r.objs, instances)

\* _ensure_initialized of the provider's chat_completion completes: with
\* e = NoErr initialize() returned, else it raised e.
chat_init_done(t, e) ==
    LET tk == tasks[t]
        p == tk.obj
    IN  /\ Resumable(t, "chat_init")
        /\ UNCHANGED <<providers, plugin_modules, config_cache,
                       mgr_initialized, instances, plugin_metadata,
                       endpoint_maps, stream, chat>>
        /\ IF e = NoErr
           THEN /\ objs' = [objs EXCEPT ![p] =
                              [initialize_ok(@) EXCEPT !.inited = TRUE]]
                /\ tasks' = [tasks EXCEPT ![t].pc = "chat_call"]
           ELSE /\ objs' = [objs EXCEPT ![p] = initialize_raise(@)]
                /\ tasks' = [tasks EXCEPT ![t] = chat_failed(tk, e)]

\* The upstream call of the provider's chat_completion completes: with
\* e = NoErr it returned a response, else it raised e.
chat_call_done(t, e) ==
    LET tk == tasks[t]
    IN  /\ Resumable(t, "chat_call")
        /\ UNCHANGED <<providers, plugin_modules, config_cache,
                       mgr_initialized, instances, plugin_metadata, objs,
                       endpoint_maps, stream, chat>>
        /\ IF e = NoErr
           THEN tasks' = [tasks EXCEPT ![t] = Finish(tk, "ok")]
           ELSE tasks' = [tasks EXCEPT ![t] = chat_failed(tk, e)]

\* The backoff sleep ends; the next attempt starts on the same instance.
chat_backoff_done(t) ==
    /\ Resumable(t, "chat_backoff")
    /\ UNCHANGED <<providers, plugin_modules, config_cache, mgr_initialized>>
    /\ \E r \in {chat_attempt([tasks[t] EXCEPT !.attempt = @ + 1,
                                               !.err = NoErr], objs)} :
          Step(t, r.task, r.objs, instances)

\* ------------------------------------------------------------------------
\* ModelManager.health_check
\* ------------------------------------------------------------------------

\* The provider takes the place of the status that says it is missing.
NotFoundStatusAvailable == [available |-> TRUE, error |-> "Provider not found"]

\* ProviderStatus(available=False, models=[], error="Provider not found")
NotFoundStatus == [available |-> FALSE, error |-> "Provider not found"]

\* health_check(provider_name): without a name it is health_check_all of the
\* registry; with a name, the instance is looked up and its health_check
\* awaited, without _ensure_initialized.
health_check(t, pn, pick) ==
    IF pn = None \/ pn[1] = ""
    THEN health_check_all(t, pick)
    ELSE LET n == pn[1]
             provider == instances[n]
             tk == [tasks[t] EXCEPT !.op = "health_check", !.name = n,
                                    !.args = <<pn>>]
         IN  /\ Idle(t)
             /\ pick = "stop"
             /\ UNCHANGED <<providers, plugin_modules, config_cache,
                            mgr_initialized>>
             /\ IF provider = NoObj
                THEN Step(t, Finish([tk EXCEPT !.results[n] = NotFoundStatus],
                                    "ok"),
                          objs, instances)
                ELSE Step(t, [tk EXCEPT !.pc = "provider_health_check",
                                        !.obj = provider],
                          objs, instances)

\* `status = await provider.health_check()` of ModelManager.health_check
\* completes: the status is returned, an exception becomes a status.
health_check_returned(t, out) ==
    LET tk == tasks[t]
        n == tk.name
    IN  /\ Resumable(t, "provider_health_check")
        /\ UNCHANGED <<providers, plugin_modules, config_cache,
                       mgr_initialized>>
        /\ Step(t, Finish([tk EXCEPT !.results[n] = health_result(out),
                                     !.outcome[n] = out], "ok"),
                objs, instances)

\* The caller has its result; the coroutine ends.
Return(t) ==
    /\ Done(t)
    /\ UNCHANGED <<providers, plugin_modules, config_cache,
                   mgr_initialized>>
    /\ Step(t, IdleTask, objs, instances)

\* The optional arguments of reload_provider and chat_completion.
OptConfigs(CS) == {None} \cup {Some(c) : c \in CS}
OptNames(NS) == {None} \cup {Some(n) : n \in NS}

\* The steps of each operation, with names drawn from NS and
\* configurations from CS.
RegisterSteps(t, NS) ==
    \/ \E n \in NS : register(t, ClassOf(n), n)
    \/ \E loads \in SUBSET (PluginFiles \cap NS) :
          discover_plugins(t, [exists |-> TRUE, files |-> PluginFiles \cap NS,
                               loads |-> loads])

CreateSteps(t, NS, CS) ==
    \/ \E n \in NS, cfg \in CS, ctor_ok \in BOOLEAN :
          create_instance(t, n, cfg, ctor_ok)
    \/ \E ok \in BOOLEAN : create_initialized(t, ok)

ReloadSteps(t, NS, CS) ==
    \/ \E n \in NS, nc \in OptConfigs(CS), module_ok, ctor_ok \in BOOLEAN :
          reload_provider(t, n, nc, module_ok, ctor_ok)
    \/ \E ok, ctor_ok \in BOOLEAN : reload_shutdown_done(t, ok, ctor_ok)

UnregisterSteps(t, NS) ==
    \/ \E n \in NS : unregister_provider(t, n)
    \/ \E ok \in BOOLEAN : unregister_shutdown_done(t, ok)

UpdateSteps(t, NS, CS) ==
    \/ \E n \in NS, cfg \in CS : update_provider_config(t, n, cfg)
    \/ \E ok \in BOOLEAN : update_shutdown_done(t, ok)
    \/ \E ok \in BOOLEAN : update_init_done(t, ok)

HealthSteps(t) ==
    \/ \E pick \in Picks : health_check_all(t, pick)
    \/ \E ok \in BOOLEAN, err \in ErrTexts, pick \in Picks :
          health_init_done(t, ok, err, pick)
    \/ \E out \in HealthOutcomes, pick \in Picks :
          health_check_done(t, out, pick)

ManagerHealthSteps(t, NS) ==
    \/ \E pn \in OptNames(NS), pick \in Picks : health_check(t, pn, pick)
    \/ \E out \in HealthOutcomes : health_check_returned(t, out)
    \/ \E ok \in BOOLEAN, err \in ErrTexts, pick \in Picks :
          health_init_done(t, ok, err, pick)
    \/ \E out \in HealthOutcomes, pick \in Picks :
          health_check_done(t, out, pick)

ShutdownSteps(t) ==
    \/ \E picks \in PickSeqs : shutdown_all(t, picks)
    \/ \E ok \in BOOLEAN, picks \in PickSeqs : shutdown_all_done(t, ok, picks)

\* The values of request.model.
OptModels(MS) == {None} \cup {Some(m) : m \in MS}

\* The steps of ModelManager.chat_completion for provider names from NS,
\* models from MS and upstream exceptions from ES.
ChatSteps(t, NS, MS, ES) ==
    \/ initialize_providers(t)
    \/ \E pn \in OptNames(NS), model \in OptModels(MS) :
          chat_completion(t, pn, model)
    \/ \E e \in ES \cup {NoErr} : chat_init_done(t, e)
    \/ \E e \in ES \cup {NoErr} : chat_call_done(t, e)
    \/ chat_backoff_done(t)

\* The caller of create_instance or update_provider_config changes, in place,
\* the nested mapping of the configuration it passed.
caller_mutates(m, path) ==
    /\ \A u \in Tasks : tasks[u].pc # "done"
    /\ endpoint_maps[m] # path
    /\ endpoint_maps' = [endpoint_maps EXCEPT ![m] = path]
    /\ UNCHANGED <<providers, instances, plugin_modules, plugin_metadata,
                   config_cache, objs, tasks, mgr_initialized, stream,
                   chat>>

\* The classes a plug-in file of the echo provider can define.
EchoClasses == {"EchoProvider", "EchoProviderV2"}

\* ------------------------------------------------------------------------
\* Streaming

\* What a run of the generator comes to: a chunk yielded while processing the
\* item at pos (resume tells where the generator continues from), the end of
\* the generator, or an exception raised to the consumer.
Yielded(pos, chunk, resume) ==
    [pos |-> pos, resume |-> resume, out |-> <<chunk>>, status |-> "suspended"]

Ended(pos) ==
    [pos |-> pos, resume |-> "none", out |-> <<>>, status |-> "ended"]

Raised(pos) ==
    [pos |-> pos, resume |-> "none", out |-> <<>>, status |-> "error"]

\* OllamaProvider._generate_completion_stream and _chat_completion_stream,
\* from the read of line pos on: an empty line and a line that is not JSON
\* are skipped, a chunk is yielded for a content or for 'done', and 'done'
\* leaves the loop.
RECURSIVE ollama_stream(_, _)
ollama_stream(up, pos) ==
    IF pos > Len(up)
    THEN Ended(pos)
    ELSE LET line == up[pos]
             content == Get(line.text, "")
             is_final == line.done
         IN  CASE line.type = "raise" -> Raised(pos)
               [] line.type \in {"empty", "garbage"} ->
                      ollama_stream(up, pos + 1)
               [] OTHER ->
                      IF content # "" \/ is_final
                      THEN Yielded(pos, StreamingChunk(content, is_final),
                                   IF is_final THEN "break" ELSE "loop")
                      ELSE ollama_stream(up, pos + 1)

\* OpenAIProvider.chat_completion_stream, from the read of chunk pos on
\* (openai_stream) and from the statement after the yield of the content of
\* chunk pos on (openai_final): a chunk with a finish_reason yields an empty
\* final chunk and leaves the loop.
RECURSIVE openai_stream(_, _)
RECURSIVE openai_final(_, _)
openai_final(up, pos) ==
    IF up[pos].done
    THEN Yielded(pos, StreamingChunk("", TRUE), "break")
    ELSE openai_stream(up, pos + 1)

openai_stream(up, pos) ==
    IF pos > Len(up)
    THEN Ended(pos)
    ELSE LET chunk == up[pos]
         IN  CASE chunk.type = "raise" -> Raised(pos)
               [] chunk.type = "no_choices" -> openai_stream(up, pos + 1)
               [] OTHER ->
                      IF Get(chunk.text, "") # ""
                      THEN Yielded(pos,
                                   StreamingChunk(chunk.text[1], chunk.done),
                                   "final")
                      ELSE openai_final(up, pos)

\* AnthropicProvider.chat_completion_stream, from the read of event pos on.
RECURSIVE anthropic_stream(_, _)
anthropic_stream(up, pos) ==
    IF pos > Len(up)
    THEN Ended(pos)
    ELSE LET event == up[pos]
         IN  CASE event.type = "raise" -> Raised(pos)
               [] event.type = "content_block_delta" ->
                      IF event.text # None
                      THEN Yielded(pos, StreamingChunk(event.text[1], FALSE),
                                   "loop")
                      ELSE anthropic_stream(up, pos + 1)
               [] event.type = "message_stop" ->
                      Yielded(pos, StreamingChunk("", TRUE), "break")
               [] OTHER -> anthropic_stream(up, pos + 1)

\* The loop of provider p over the upstream stream, from item pos on.
read_upstream(p, up, pos) ==
    CASE p = "ollama" -> ollama_stream(up, pos)
      [] p = "openai" -> openai_stream(up, pos)
      [] OTHER -> anthropic_stream(up, pos)

\* The run of the generator s from where it is suspended to its next yield,
\* its end or its raise.  The first run makes the request, which raises when
\* the provider does not initialize or the upstream side refuses.
stream_run(s) ==
    CASE s.resume = "start" ->
             IF s.opens
             THEN read_upstream(s.provider, s.upstream, 1)
             ELSE Raised(0)
      [] s.resume = "loop" -> read_upstream(s.provider, s.upstream, s.pos + 1)
      [] s.resume = "final" -> openai_final(s.upstream, s.pos)
      [] OTHER -> Ended(s.pos)

\* The variables of the registry, the manager and their callers.
registry_vars == <<providers, instances, plugin_modules, plugin_metadata,
                   config_cache, objs, tasks, mgr_initialized, endpoint_maps>>

\* chat_completion_stream(request) of provider p: the call makes the
\* generator and runs none of its code.  up is what the upstream side will
\* deliver, opens whether the request will be accepted.
chat_completion_stream(p, opens, up) ==
    /\ stream.status = "none"
    /\ opens \/ up = <<>>
    /\ stream' = [NoStream EXCEPT !.provider = p, !.opens = opens,
                                  !.upstream = up, !.resume = "start",
                                  !.status = "suspended"]
    /\ UNCHANGED <<registry_vars, chat>>

\* The consumer asks the generator for its next chunk.
stream_next ==
    /\ stream.status = "suspended"
    /\ LET r == stream_run(stream)
       IN  stream' = [stream EXCEPT !.pos = r.pos, !.resume = r.resume,
                                    !.yielded = @ \o r.out,
                                    !.status = r.status]
    /\ UNCHANGED <<registry_vars, chat>>

\* One streamed chat completion of any provider over any upstream stream.
NextStream ==
    \/ \E p \in StreamProviders, opens \in BOOLEAN :
          \E up \in Upstreams(p) : chat_completion_stream(p, opens, up)
    \/ stream_next

SpecStream == Init /\ [][NextStream]_vars

\* ------------------------------------------------------------------------
\* ChatService (services/chat_service.py) and the conversation store
\* ------------------------------------------------------------------------

\* 'not title' of an optional text.
Falsy(title) == title = None \/ title = Some(<<>>)

\* Coroutine t moves to call, the conversations table becomes convs.
ChatStep(t, call, convs) ==
    /\ chat' = [conversations |-> convs,
                calls |-> [chat.calls EXCEPT ![t] = call]]
    /\ UNCHANGED <<registry_vars, stream>>

\* The coroutine has called the collaborator's function fn.
Called(call, fn) == [call EXCEPT !.calls = Append(@, fn)]

\* The coroutine returns (response, conversation.id).
Returns(call) == [call EXCEPT !.pc = "done", !.ret = "ok"]

\* The coroutine raises: the except clause logs and raises again.
Raises(call, error) ==
    [call EXCEPT !.pc = "done", !.ret = "raise", !.error = error]

\* send_message(prompt, conversation_id=conversation_id), up to its first
\* await.
send_message(t, prompt, conversation_id) ==
    LET call == [IdleCall EXCEPT !.op = "send_message", !.prompt = prompt,
                                 !.conversation_id = conversation_id]
    IN  /\ chat.calls[t].pc = "idle"
        /\ IF ~validate_prompt(prompt)
           THEN ChatStep(t, Raises(call, "Invalid prompt provided"),
                         chat.conversations)
           ELSE ChatStep(t,
                    [call EXCEPT
                         !.pc = "get_or_create_conversation",
                         !.messages =
                             <<ChatMessage("user", sanitize_prompt(prompt))>>],
                    chat.conversations)

\* send_conversation(messages, conversation_id=conversation_id), up to its
\* first await.
send_conversation(t, messages, conversation_id) ==
    /\ chat.calls[t].pc = "idle"
    /\ ChatStep(t, [IdleCall EXCEPT !.op = "send_conversation",
                                    !.pc = "get_or_create_conversation",
                                    !.messages = messages,
                                    !.conversation_id = conversation_id],
                chat.conversations)

\* The coroutine goes on to persist its next message or, past the last one,
\* to the model manager.
next_message(call, i) ==
    IF i <= Len(call.messages)
    THEN [call EXCEPT !.pc = "add_message", !.i = i]
    ELSE [call EXCEPT !.pc = "chat_completion", !.i = i]

\* ConversationService.get_or_create_conversation(conversation_id): the row
\* of that id when there is one, a new row without a title otherwise.
get_or_create_conversation(t) ==
    LET call == chat.calls[t]
        convs == chat.conversations
        id == call.conversation_id
    IN  /\ call.pc = "get_or_create_conversation"
        /\ IF id # 0 /\ id \in 1..Len(convs)
           THEN ChatStep(t,
                    next_message(
                        [call EXCEPT !.conversation =
                             [id |-> id, title |-> convs[id].title]], 1),
                    convs)
           ELSE ChatStep(t,
                    next_message(
                        [call EXCEPT !.conversation =
                             [id |-> Len(convs) + 1, title |-> None]], 1),
                    Append(convs, [title |-> None, messages |-> <<>>]))

\* ConversationService.add_message(conversation.id, role, content)
persist(convs, id, message) ==
    [convs EXCEPT ![id].messages = Append(@, message)]

\* The coroutine persists the message of the user (send_message) or its
\* next message (send_conversation).
add_message(t) ==
    LET call == chat.calls[t]
        message == call.messages[call.i]
    IN  /\ call.pc = "add_message"
        /\ ChatStep(t,
               next_message(Called(call, "add_message:" \o message.role),
                            call.i + 1),
               persist(chat.conversations, call.conversation.id, message))

\* The coroutine builds the ChatRequest and calls
\* model_manager.chat_completion(request, provider).
manager_chat_completion(t) ==
    LET call == chat.calls[t]
    IN  /\ call.pc = "chat_completion"
        /\ ChatStep(t,
               [Called(call, "chat_completion") EXCEPT
                    !.pc = "chat_completion_done",
                    !.request = call.messages],
               chat.conversations)

\* As manager_chat_completion_done, but an error of the model manager is
\* persisted as the message of the assistant before it is raised.
manager_chat_completion_done_record(t, ok) ==
    LET call == chat.calls[t]
    IN  /\ call.pc = "chat_completion_done"
        /\ IF ok
           THEN ChatStep(t, [call EXCEPT !.pc = "add_assistant"],
                         chat.conversations)
           ELSE ChatStep(t,
                    Raises(Called(call, "add_message:assistant"),
                           "AI provider error"),
                    persist(chat.conversations, call.conversation.id,
                            ChatMessage("assistant", <<>>)))

\* model_manager.chat_completion returns a response (ok) or raises.
manager_chat_completion_done(t, ok) ==
    LET call == chat.calls[t]
    IN  /\ call.pc = "chat_completion_done"
        /\ IF ok
           THEN ChatStep(t, [call EXCEPT !.pc = "add_assistant"],
                         chat.conversations)
           ELSE ChatStep(t, Raises(call, "AI provider error"),
                         chat.conversations)

\* The coroutine persists the response, then returns unless the conversation
\* it fetched has no title.
add_assistant_message(t) ==
    LET call == chat.calls[t]
        added == Called(call, "add_message:assistant")
    IN  /\ call.pc = "add_assistant"
        /\ ChatStep(t,
               IF Falsy(call.conversation.title)
               THEN [added EXCEPT !.pc = "generate_conversation_title"]
               ELSE Returns(added),
               persist(chat.conversations, call.conversation.id,
                       ChatMessage("assistant", ResponseContent)))

\* The title ConversationService.generate_conversation_title makes of the
\* messages of a conversation: the first TitleLength characters of the
\* first message of the user, stripped, or None.
conversation_title(messages) ==
    LET of_user == SelectSeq(messages, LAMBDA m : m.role = "user")
    IN  IF of_user = <<>>
        THEN None
        ELSE LET content == of_user[1].content
             IN  Some(strip(Slice(content, TitleLength))
                          \o (IF CharLen(content) > TitleLength
                              THEN <<"...">> ELSE <<>>))

\* As generate_conversation_title, but the title is stored whatever it is.
generate_conversation_title_any(t) ==
    LET call == chat.calls[t]
        title == conversation_title(
                     chat.conversations[call.conversation.id].messages)
        made == [Called(call, "generate_conversation_title")
                     EXCEPT !.title = title]
    IN  /\ call.pc = "generate_conversation_title"
        /\ ChatStep(t, [made EXCEPT !.pc = "update_conversation_title"],
                    chat.conversations)

\* The coroutine has the title generated, then returns unless there is one.
generate_conversation_title(t) ==
    LET call == chat.calls[t]
        title == conversation_title(
                     chat.conversations[call.conversation.id].messages)
        made == [Called(call, "generate_conversation_title")
                     EXCEPT !.title = title]
    IN  /\ call.pc = "generate_conversation_title"
        /\ ChatStep(t,
               IF Falsy(title)
               THEN Returns(made)
               ELSE [made EXCEPT !.pc = "update_conversation_title"],
               chat.conversations)

\* ConversationService.update_conversation_title(conversation.id, title),
\* and the return of the coroutine.
update_conversation_title(t) ==
    LET call == chat.calls[t]
    IN  /\ call.pc = "update_conversation_title"
        /\ ChatStep(t, Returns(Called(call, "update_conversation_title")),
               [chat.conversations EXCEPT
                    ![call.conversation.id].title = call.title])

\* The steps of a ChatService coroutine past its call.
ChatServiceSteps(t) ==
    \/ get_or_create_conversation(t)
    \/ add_message(t)
    \/ manager_chat_completion(t)
    \/ \E ok \in BOOLEAN : manager_chat_completion_done(t, ok)
    \/ add_assistant_message(t)
    \/ generate_conversation_title(t)
    \/ update_conversation_title(t)

\* The ChatService under one send_message and one send_conversation.
NextChatService ==
    \/ \E prompt \in Prompts, id \in ConversationIds :
           send_message("s1", prompt, id)
    \/ \E messages \in MessageLists, id \in ConversationIds :
           send_conversation("s2", messages, id)
    \/ \E t \in ChatTasks : ChatServiceSteps(t)

SpecChatService == Init /\ [][NextChatService]_vars

\* The registry under concurrent administration of one provider.
Next ==
    \E t \in Tasks :
        \/ RegisterSteps(t, {"echo"})
        \/ CreateSteps(t, {"echo"}, Configs)
        \/ ReloadSteps(t, {"echo"}, Configs)
        \/ UnregisterSteps(t, {"echo"})
        \/ UpdateSteps(t, {"echo"}, Configs)
        \/ Return(t)

Spec == Init /\ [][Next]_vars

\* One provider is registered again and again, and configured with a
\* configuration that has a nested mapping its caller keeps changing.
NextAdmin ==
    \/ \E cls \in EchoClasses : register("t2", cls, "echo")
    \/ CreateSteps("t1", {"echo"}, {CfgEmpty, CfgNested})
    \/ UpdateSteps("t1", {"echo"}, {CfgA, CfgNested})
    \/ ReloadSteps("t2", {"echo"}, {})
    \/ \E t \in Tasks : Return(t)
    \/ \E m \in MapIds, path \in EndpointPaths : caller_mutates(m, path)

SpecAdmin == Init /\ [][NextAdmin]_vars

\* All instances are shut down while providers are created.
NextShutdown ==
    \/ ShutdownSteps("t1")
    \/ \E n \in Names : register("t2", ClassOf(n), n)
    \/ CreateSteps("t2", Names, {CfgEmpty})
    \/ \E t \in Tasks : Return(t)

SpecShutdown == Init /\ [][NextShutdown]_vars

\* The Manager is asked for the health of a provider that comes and goes,
\* and of all providers.
NextManagerHealth ==
    \/ ManagerHealthSteps("t1", {"echo"})
    \/ RegisterSteps("t2", {"echo"})
    \/ CreateSteps("t2", {"echo"}, {CfgEmpty})
    \/ UnregisterSteps("t2", {"echo"})
    \/ \E t \in Tasks : Return(t)

SpecManagerHealth == Init /\ [][NextManagerHealth]_vars

\* Requests served while one provider is created and reloaded.
NextServe ==
    \/ \E t \in Tasks :
          \/ ChatSteps(t, {"echo"}, {}, {ErrRefused, ErrBadKey})
          \/ HealthSteps(t)
          \/ Return(t)
    \/ RegisterSteps("t2", {"echo"})
    \/ CreateSteps("t2", {"echo"}, {CfgA})
    \/ ReloadSteps("t2", {"echo"}, {CfgA})

SpecServe == Init /\ [][NextServe]_vars

\* A health check over two providers that come and go.
NextHealth ==
    \/ HealthSteps("t1")
    \/ \E n \in Names : register("t2", ClassOf(n), n)
    \/ CreateSteps("t2", Names, {CfgEmpty})
    \/ UnregisterSteps("t2", Names)
    \/ \E t \in Tasks : Return(t)

SpecHealth == Init /\ [][NextHealth]_vars

\* The two aggregate operations over providers that are created, reloaded
\* and unregistered meanwhile.
NextAggregate ==
    \/ HealthSteps("t1")
    \/ ShutdownSteps("t1")
    \/ \E n \in Names : register("t2", ClassOf(n), n)
    \/ CreateSteps("t2", Names, {CfgEmpty})
    \/ ReloadSteps("t2", {"echo"}, {})
    \/ UnregisterSteps("t2", Names)
    \/ \E t \in Tasks : Return(t)

SpecAggregate == Init /\ [][NextAggregate]_vars

\* Chat requests with every kind of upstream failure, on providers that are
\* registered, created and unregistered meanwhile.
NextChat ==
    \/ ChatSteps("t1", {"echo"}, {"", "m2"}, ChatErrors)
    \/ \E ok \in BOOLEAN : create_initialized("t1", ok)
    \/ RegisterSteps("t2", Names)
    \/ CreateSteps("t2", {"echo"}, {CfgEmpty, CfgA})
    \/ UnregisterSteps("t2", {"echo"})
    \/ \E t \in Tasks : Return(t)

SpecChat == Init /\ [][NextChat]_vars

\* The plugin directories: absent or present, with any of the provider
\* files, any of which may raise while loading.
PluginDirs ==
    UNION {{[exists |-> x, files |-> fs, loads |-> ls] :
               x \in BOOLEAN, ls \in SUBSET fs} : fs \in SUBSET Names}

\* Plugin discovery while providers are registered, created and unregistered.
NextDiscover ==
    \/ \E dir \in PluginDirs : discover_plugins("t1", dir)
    \/ \E n \in Names :
          \E cls \in EchoClasses \cup {ClassOf(n)} : register("t2", cls, n)
    \/ CreateSteps("t2", Names, {CfgEmpty})
    \/ UnregisterSteps("t2", Names)
    \/ \E t \in Tasks : Return(t)

SpecDiscover == Init /\ [][NextDiscover]_vars

\* Chat requests to the Ollama provider while its upstream call fails.
NextOllamaChat ==
    \/ ChatSteps("t1", {"ollama"}, {"m2"}, OllamaErrors)
    \/ \E ok \in BOOLEAN : create_initialized("t1", ok)
    \/ register("t2", ClassOf("ollama"), "ollama")
    \/ CreateSteps("t2", {"ollama"}, {CfgA})
    \/ \E t \in Tasks : Return(t)

SpecOllamaChat == Init /\ [][NextOllamaChat]_vars

\* ------------------------------------------------------------------------
\* Properties
\* ------------------------------------------------------------------------

\* ProviderRegistry.get_instance
get_instance(n) == instances[n]

\* Task t takes a step of the operation op.
Steps(t, op) == tasks'[t].op = op /\ tasks'[t].pc # tasks[t].pc

\* Task t calls the operation op in this step.
Calls(t, op) == tasks[t].pc = "idle" /\ tasks'[t].op = op

Returned(t, op) == Done(t) /\ tasks[t].op = op

\* A step renumbers the references (Commit).  An object is followed over a
\* step by a one-to-one map ren from its old reference to its new one
\* (GoneRef when nothing refers to the object any more).
Renumberings ==
    {ren \in [ObjIds -> ObjIds \cup {GoneRef}] :
        \A i, j \in ObjIds : (ren[i] = ren[j] /\ ren[i] # GoneRef) => i = j}

Follow(ren, r) == IF r \in ObjIds THEN ren[r] ELSE r

\* The instance table and the metadata cache hold the objects they held, the
\* config cache holds the configurations it held.
SameTables(ren) ==
    /\ instances' = [n \in Names |-> Follow(ren, instances[n])]
    /\ plugin_metadata' = [n \in Names |-> Follow(ren, plugin_metadata[n])]
    /\ config_cache' = config_cache

\* No object was constructed and no object changed.
SameObjects(ren) ==
    /\ \A i \in ObjIds : ren[i] # GoneRef => objs'[ren[i]] = objs[i]
    /\ \A r \in ObjIds :
          objs'[r].life # "free" =>
              \E i \in ObjIds : ren[i] = r /\ objs[i].life # "free"

\* C1: create_instance on a registered name that has an instance returns
\* that instance, whatever configuration it is given, and leaves the instance
\* table, the cached config, the cached metadata and every provider object as
\* they are (no new object is constructed or initialized); a create_instance
\* that returns has the returned instance in the table.
C1_MemoizedStep(t) ==
    LET n == tasks'[t].name
    IN  /\ (Calls(t, "create_instance") /\ providers[n] # "none"
              /\ get_instance(n) # NoObj) =>
              /\ tasks'[t].pc = "done"
              /\ tasks'[t].ret = "ok"
              /\ tasks'[t].obj = instances'[n]
              /\ \E ren \in Renumberings :
                    SameTables(ren) /\ SameObjects(ren)
        /\ (Steps(t, "create_instance") /\ tasks'[t].ret = "ok") =>
              /\ instances'[n] # NoObj
              /\ instances'[n] = tasks'[t].obj

C1_CreateMemoized == [][\A t \in Tasks : C1_MemoizedStep(t)]_vars

\* A create_instance with another configuration than the one the instance
\* holds has returned the instance.
C1_Witness ==
    \E t \in Tasks :
        /\ Returned(t, "create_instance")
        /\ tasks[t].ret = "ok"
        /\ tasks[t].obj = get_instance(tasks[t].name)
        /\ tasks[t].cfg # None
        /\ objs[tasks[t].obj].config # tasks[t].cfg[1]

\* C2: when reload_provider returns on a name that had a live instance, the
\* instance table does not hold that old instance any more.
C2_OldInstanceGone ==
    \A t \in Tasks :
        (Returned(t, "reload_provider") /\ tasks[t].old # NoObj) =>
            get_instance(tasks[t].name) # tasks[t].old

\* C3: unregister_provider returns true for a name that was registered when
\* it was called and false for a name that was not.
C3_UnregisterIdempotent ==
    \A t \in Tasks :
        Returned(t, "unregister_provider") =>
            (tasks[t].ret = "true" <=> tasks[t].was_reg)

\* C4: at most one initialized and not shut down provider object exists per
\* provider name.
C4_AtMostOneLive ==
    \A n \in Names :
        Cardinality({i \in ObjIds : objs[i].name = n
                                    /\ objs[i].life = "ready"}) <= 1

\* C5: every name in the instance table is in the class table.
C5_InstanceImpliesClass ==
    \A n \in Names : get_instance(n) # NoObj => providers[n] # "none"

\* C6: when no operation is in progress, every instance in the instance
\* table has completed initialize() and has not been shut down.
C6_InstancesUsable ==
    (\A t \in Tasks : tasks[t].pc \in {"idle", "done"}) =>
        \A n \in Names :
            get_instance(n) # NoObj => objs[get_instance(n)].life = "ready"

\* C7: a create_instance that does not return an instance raises and leaves
\* the instance table, the config cache and the metadata cache as they were:
\* no step of it changes them.  It raises for an unregistered name and, on a
\* registered name without instance, for a configuration that
\* validate_config rejects.
C7_FailingStep(t) ==
    LET n == tasks'[t].name
    IN  /\ (Steps(t, "create_instance") /\ tasks'[t].ret # "ok") =>
              \E ren \in Renumberings : SameTables(ren)
        /\ (Steps(t, "create_instance") /\ tasks'[t].pc = "done") =>
              tasks'[t].ret \in {"ok", "err_unknown", "err_invalid",
                                 "err_ctor", "err_init"}
        /\ (Calls(t, "create_instance") /\ providers[n] = "none") =>
              tasks'[t].pc = "done" /\ tasks'[t].ret = "err_unknown"
        /\ (Calls(t, "create_instance") /\ providers[n] # "none"
              /\ get_instance(n) = NoObj /\ tasks'[t].cfg = Some(CfgBad)) =>
              tasks'[t].pc = "done"
                /\ tasks'[t].ret \in {"err_invalid", "err_ctor"}

C7_FailedCreateChangesNothing == [][\A t \in Tasks : C7_FailingStep(t)]_vars

\* A create_instance has failed in initialize().
C7_Witness ==
    \E t \in Tasks :
        Returned(t, "create_instance") /\ tasks[t].ret = "err_init"

\* C8: chat_completion and health_check_all never invoke initialize() on an
\* instance that create_instance has initialized.
C8_InitializeOnce == \A i \in ObjIds : ~objs[i].reinit

\* C9: the instance chat_completion gets from get_instance is never one
\* whose shutdown() has started or completed.
C9_NeverHalfShutDown ==
    \A t \in Tasks :
        tasks[t].op = "chat_completion" =>
            tasks[t].got_life \notin {"closing", "closed"}

SameProvider(t) ==
    \E ren \in Renumberings :
        SameTables(ren) /\ tasks'[t].obj = Follow(ren, tasks[t].obj)

\* Task t is in chat_completion before and after the step.
InChat(t) ==
    tasks[t].op = "chat_completion" /\ tasks'[t].op = "chat_completion"

\* The attempt of task t that was awaited ends in this step by raising an
\* exception of one of the classes.
AttemptRaises(t, classes) ==
    /\ InChat(t)
    /\ tasks[t].pc \in {"chat_init", "chat_call"}
    /\ tasks'[t].err # NoErr
    /\ tasks'[t].err.cls \in classes

\* C11: an attempt of chat_completion that raises ConnectionError,
\* TimeoutError or OSError before the third is followed, after the backoff,
\* by the next attempt on the same instance, and an attempt that returns
\* ends chat_completion with its response: two transient failures and a
\* success are three invocations and a response.
C11_RetryStep(t) ==
    /\ (AttemptRaises(t, {"ConnectionError", "TimeoutError", "OSError"})
          /\ tasks[t].attempt < 3) =>
          /\ tasks'[t].pc = "chat_backoff"
          /\ tasks'[t].attempt = tasks[t].attempt
          /\ SameProvider(t)
    /\ (InChat(t) /\ tasks[t].pc = "chat_backoff"
          /\ tasks'[t].pc # "chat_backoff") =>
          /\ tasks'[t].attempt = tasks[t].attempt + 1
          /\ SameProvider(t)
    /\ (InChat(t) /\ tasks[t].pc = "chat_call" /\ tasks'[t].pc = "done"
          /\ tasks'[t].err = NoErr) =>
          /\ tasks'[t].ret = "ok"
          /\ tasks'[t].attempt = tasks[t].attempt
          /\ SameProvider(t)

C11_RetryThenSuccess == [][\A t \in Tasks : C11_RetryStep(t)]_vars

\* A chat_completion has returned the response of its third attempt.
C11_Witness ==
    \E t \in Tasks :
        /\ Returned(t, "chat_completion")
        /\ tasks[t].ret = "ok"
        /\ tasks[t].attempt = 3

\* C12: an attempt that raises an error of another class than
\* ConnectionError, TimeoutError and OSError ends chat_completion with an
\* error at once, without a further invocation of the provider.
C12_FatalStep(t) ==
    AttemptRaises(t, {"ValueError", "Exception", "RuntimeError"}) =>
        /\ tasks'[t].pc = "done"
        /\ tasks'[t].ret \notin {"ok", "none"}
        /\ tasks'[t].attempt = tasks[t].attempt

C12_NonTransientNotRetried == [][\A t \in Tasks : C12_FatalStep(t)]_vars

\* A chat_completion has failed on the non-transient error of its first
\* attempt.
C12_Witness ==
    \E t \in Tasks :
        /\ Returned(t, "chat_completion")
        /\ tasks[t].err.cls = "ValueError"
        /\ tasks[t].attempt = 1
        /\ tasks[t].ret # "ok"

\* C13: chat_completion never makes more than 3 attempts, and when its last
\* attempt raised a transient error it has made exactly 3 and ends with a
\* reclassified error, not with a response.
C13_BudgetExhausted ==
    \A t \in Tasks :
        tasks[t].op = "chat_completion" =>
            /\ tasks[t].attempt <= 3
            /\ tasks[t].pc = "chat_backoff" => tasks[t].attempt < 3
            /\ (Done(t) /\ tasks[t].err.cls
                               \in {"ConnectionError", "TimeoutError",
                                    "OSError"}) =>
                  /\ tasks[t].attempt = 3
                  /\ tasks[t].ret \in {"err_authentication", "err_rate_limit",
                                       "err_connection",
                                       "err_model_not_found",
                                       "err_request_failed"}

\* Three attempts raised a transient error and chat_completion has failed.
C13_Witness ==
    \E t \in Tasks :
        /\ Returned(t, "chat_completion")
        /\ tasks[t].err.cls = "OSError"
        /\ tasks[t].attempt = 3
        /\ tasks[t].ret = "err_request_failed"

\* The lower-cased text has the word.
HasWord(e, w) == \E i \in DOMAIN e.text : LowerWord(e.text[i]) = w

\* The lower-cased text has the two words next to each other.
HasWords(e, w1, w2) ==
    \E i \in DOMAIN e.text :
        /\ i + 1 \in DOMAIN e.text
        /\ LowerWord(e.text[i]) = w1
        /\ LowerWord(e.text[i + 1]) = w2

\* C14: the error chat_completion raises on final failure is decided by the
\* lower-cased upstream text, first match first: 'authentication' or
\* 'api key', then 'rate limit' or 'quota', then 'connection' or 'timeout',
\* then 'model' together with 'not found', else the generic request-failed
\* error, which carries the upstream text.
C14_Reclassified ==
    \A t \in Tasks :
        (Returned(t, "chat_completion") /\ tasks[t].err # NoErr) =>
            LET e == tasks[t].err
                auth == HasWord(e, "authentication")
                          \/ HasWords(e, "api", "key")
                rate == HasWords(e, "rate", "limit") \/ HasWord(e, "quota")
                conn == HasWord(e, "connection") \/ HasWord(e, "timeout")
                nomodel == HasWord(e, "model") /\ HasWords(e, "not", "found")
            IN  /\ auth => tasks[t].ret = "err_authentication"
                /\ (~auth /\ rate) => tasks[t].ret = "err_rate_limit"
                /\ (~auth /\ ~rate /\ conn) => tasks[t].ret = "err_connection"
                /\ (~auth /\ ~rate /\ ~conn /\ nomodel) =>
                      tasks[t].ret = "err_model_not_found"
                /\ (~auth /\ ~rate /\ ~conn /\ ~nomodel) =>
                      /\ tasks[t].ret = "err_request_failed"
                      /\ tasks[t].msg = e.text

\* A text with 'Rate limit' and 'connection' has been reclassified as
\* rate-limit exceeded.
C14_Witness ==
    \E t \in Tasks :
        /\ Returned(t, "chat_completion")
        /\ tasks[t].err = ErrRateConn
        /\ tasks[t].ret = "err_rate_limit"

\* The provider name chat_completion was called with, resolved.
ResolvedName(tk) ==
    IF tk.args[1] = None THEN "ollama" ELSE tk.args[1][1]

\* C15 as stated: chat_completion looks up the given name, the default
\* provider when none is given, and when it fails with provider-not-available
\* it has invoked no provider method and created no instance.
C15_NotAvailableUntouched ==
    \A t \in Tasks :
        Returned(t, "chat_completion") =>
            /\ tasks[t].name = ResolvedName(tasks[t])
            /\ tasks[t].ret = "err_not_available" =>
                  ~tasks[t].made /\ tasks[t].attempt = 0

\* C15 amended: chat_completion looks up the given name, the default provider
\* when none is given; it fails with provider-not-available exactly when
\* that name has no instance after the Manager's provider initialization,
\* without an attempt on a provider; on a Manager that is initialized
\* already, it does so at once, constructing no object and changing no
\* table.
C15_NotAvailableStep(t) ==
    LET n == ResolvedName(tasks'[t])
    IN  /\ Calls(t, "chat_completion") =>
              IF tasks'[t].target # "none" THEN tasks'[t].target = n
              ELSE tasks'[t].name = n
        /\ (Calls(t, "chat_completion") /\ mgr_initialized
              /\ get_instance(n) = NoObj) =>
              /\ tasks'[t].pc = "done"
              /\ tasks'[t].ret = "err_not_available"
              /\ ~tasks'[t].made
              /\ \E ren \in Renumberings :
                    SameTables(ren) /\ SameObjects(ren)
        /\ (Steps(t, "chat_completion") /\ tasks'[t].target = "none"
              /\ tasks[t].pc \in {"idle", "create_init"}) =>
              /\ tasks'[t].name = n
              /\ tasks'[t].ret = "err_not_available"
                    <=> instances'[n] = NoObj
              /\ tasks'[t].ret = "err_not_available" =>
                    tasks'[t].pc = "done" /\ tasks'[t].attempt = 0

C15_NotAvailable == [][\A t \in Tasks : C15_NotAvailableStep(t)]_vars

\* On an initialized Manager a chat_completion without provider name has
\* failed because the default provider has no instance.
C15_Witness ==
    \E t \in Tasks :
        /\ Returned(t, "chat_completion")
        /\ tasks[t].ret = "err_not_available"
        /\ tasks[t].args[1] = None
        /\ tasks[t].name = "ollama"
        /\ ~tasks[t].made

\* C16 as stated: the provider is invoked with its default model when the
\* caller left request.model unset, and with the caller's request.model
\* whenever the caller set it.
C16_ModelAsGiven ==
    \A t \in Tasks :
        (tasks[t].op = "chat_completion" /\ tasks[t].attempt >= 1) =>
            tasks[t].model =
                IF tasks[t].args[2] = None
                THEN Some(get_default_model(objs[tasks[t].obj]))
                ELSE tasks[t].args[2]

\* C16 amended: the provider is invoked with its default model when the
\* caller left request.model unset or set it to the empty string, and with
\* the caller's request.model when that is a non-empty string.
C16_ModelFilled ==
    \A t \in Tasks :
        (tasks[t].op = "chat_completion" /\ tasks[t].attempt >= 1) =>
            tasks[t].model =
                IF tasks[t].args[2] \in {None, Some("")}
                THEN Some(get_default_model(objs[tasks[t].obj]))
                ELSE tasks[t].args[2]

\* A request without model is with a provider configured with default model
\* "m1", as a request for "m1".
C16_Witness ==
    \E t \in Tasks :
        /\ tasks[t].op = "chat_completion"
        /\ tasks[t].pc = "chat_call"
        /\ tasks[t].args[2] = None
        /\ objs[tasks[t].obj].config.default_model = Some("m1")
        /\ tasks[t].model = Some("m1")

\* C17: reload_provider ends with true or false, never with an exception;
\* with false for an unregistered name and when shutdown() of the old
\* instance raised; with true only when the new instance is the one in the
\* instance table; and after false for a registered name the name has no
\* instance.
C17_ReloadStep(t) ==
    LET n == tasks'[t].name
        returns == Steps(t, "reload_provider") /\ tasks'[t].pc = "done"
    IN  /\ (Calls(t, "reload_provider") /\ providers[n] = "none") =>
              tasks'[t].pc = "done" /\ tasks'[t].ret = "false"
        /\ returns => tasks'[t].ret \in {"true", "false"}
        /\ (Steps(t, "reload_provider") /\ tasks[t].pc = "reload_shutdown"
              /\ objs'[tasks'[t].old].life = "closing") =>
              tasks'[t].pc = "done" /\ tasks'[t].ret = "false"
        /\ (returns /\ tasks'[t].ret = "true") =>
              instances'[n] # NoObj /\ instances'[n] = tasks'[t].obj
        /\ (returns /\ tasks'[t].ret = "false" /\ providers[n] # "none") =>
              instances'[n] = NoObj

C17_ReloadReportsFailure == [][\A t \in Tasks : C17_ReloadStep(t)]_vars

\* C18: the object reload_provider constructs has the configuration the
\* caller gave, the empty one too; without a given configuration it has the
\* cached one, or the empty one when none is cached.
C18_ConfigStep(t) ==
    (Steps(t, "reload_provider") /\ tasks'[t].pc = "create_init") =>
        LET given == tasks'[t].args[1]
            config == objs'[tasks'[t].obj].config
        IN  IF given # None THEN config = given[1]
            ELSE tasks[t].pc = "idle" =>
                    config = Get(config_cache[tasks'[t].name], CfgEmpty)

C18_GivenConfigUsed == [][\A t \in Tasks : C18_ConfigStep(t)]_vars

\* The instance table holds the objects it held.
SameInstances(ren) ==
    instances' = [n \in Names |-> Follow(ren, instances[n])]

\* C19: update_provider_config(name, cfg) returns false and changes nothing
\* when the name has no instance or validate_config rejects cfg; otherwise
\* it runs reload(cfg) on the instance of the name; no step of it changes the
\* instance table; and it stores cfg as the cached config when reload()
\* returned, and leaves the config cache as it is when it returns false.
C19_UpdateStep(t) ==
    LET n == tasks'[t].name
        cfg == tasks'[t].args[1]
        op == "update_provider_config"
    IN  /\ (Calls(t, op)
              /\ (get_instance(n) = NoObj \/ ~validate_config(cfg))) =>
              /\ tasks'[t].pc = "done"
              /\ tasks'[t].ret = "false"
              /\ \E ren \in Renumberings :
                    SameTables(ren) /\ SameObjects(ren)
        /\ (Calls(t, op) /\ get_instance(n) # NoObj
              /\ validate_config(cfg)) =>
              /\ tasks'[t].pc \in {"update_shutdown", "update_init"}
              /\ tasks'[t].obj = instances'[n]
        /\ Steps(t, op) =>
              /\ \E ren \in Renumberings :
                    /\ SameInstances(ren)
                    /\ tasks[t].pc # "idle" =>
                          tasks'[t].obj = Follow(ren, tasks[t].obj)
              /\ tasks'[t].pc # "done" => config_cache' = config_cache
              /\ tasks'[t].pc = "done" =>
                    /\ tasks'[t].ret \in {"true", "false"}
                    /\ tasks'[t].ret = "false" => config_cache' = config_cache
                    /\ tasks'[t].ret = "true" =>
                          config_cache' =
                              [config_cache EXCEPT ![n] = Some(cfg)]

C19_UpdateInPlace == [][\A t \in Tasks : C19_UpdateStep(t)]_vars

\* update_provider_config has returned true: the instance of the name is the
\* one it reloaded and the cached config is the one it was given.
C19_Witness ==
    \E t \in Tasks :
        /\ Returned(t, "update_provider_config")
        /\ tasks[t].ret = "true"
        /\ instances[tasks[t].name] = tasks[t].obj
        /\ config_cache[tasks[t].name] = Some(tasks[t].args[1])

\* C20: when unregister_provider has ended on a name that was registered,
\* the name is in none of the class table, the instance table, the config
\* cache and the metadata cache, and shutdown() was invoked on the instance
\* it had; so too when shutdown() raised.
C20_UnregisterRemovesAll ==
    \A t \in Tasks :
        (Returned(t, "unregister_provider") /\ tasks[t].was_reg) =>
            LET n == tasks[t].name
            IN  /\ providers[n] = "none"
                /\ get_instance(n) = NoObj
                /\ config_cache[n] = None
                /\ plugin_metadata[n] = NoObj
                /\ tasks[t].old # NoObj =>
                      objs[tasks[t].old].life \in {"closing", "closed"}

\* C22: every entry of the metadata cache is the metadata of the instance
\* that the instance table has for the name: no metadata entry outlives the
\* instance that produced it.
C22_MetadataOfLiveInstance ==
    \A n \in Names :
        plugin_metadata[n] # NoObj => plugin_metadata[n] = get_instance(n)

\* C29: a chat_completion that failed because its last attempt raised
\* ConnectionError, TimeoutError or OSError fails with the connectivity
\* error, whatever the text of the exception; a chat_completion that failed
\* because the provider has no instance fails with another error.
C29_TransientIsConnectivity ==
    \A t \in Tasks :
        Returned(t, "chat_completion") =>
            /\ tasks[t].err.cls \in {"ConnectionError", "TimeoutError",
                                     "OSError"} =>
                  tasks[t].ret = "err_connection"
            /\ tasks[t].attempt = 0 => tasks[t].ret # "err_connection"

\* Task t is in the provider initialization of the Manager, inside its
\* create_instance for name n.
InitCreating(t, n) ==
    /\ tasks[t].op \in {"initialize_providers", "chat_completion"}
    /\ tasks[t].pc = "create_init"
    /\ tasks[t].name = n

\* C25: the provider initialization of the Manager, however many calls of
\* initialize_providers and chat_completion overlap, has create_instance
\* running at most once for a configured name: no two calls construct and
\* initialize a provider object for the same name.
C25_InitializedOnce ==
    \A n \in Names :
        Cardinality({t \in Tasks : InitCreating(t, n)}) <= 1

\* Task t runs initialize_providers and its create_instance for a name ends
\* in this step without an instance installed: it raised.
InitCreateRaises(t) ==
    /\ tasks[t].op = "initialize_providers"
    /\ tasks[t].pc = "create_init"
    /\ tasks'[t].pc # "create_init" \/ tasks'[t].name # tasks[t].name
    /\ \E ren \in Renumberings : SameInstances(ren)

\* The place of a key in settings.ai_providers.
KeyIndex(n) == CHOOSE i \in DOMAIN AiProviderKeys : AiProviderKeys[i] = n

\* C24: when a create_instance of initialize_providers raises, the loop goes
\* on with the names that follow, with nothing installed for the failing
\* name; initialize_providers returns without an exception, and when it was
\* the call that did the work it has called create_instance for every key of
\* the configuration but "default".
C24_InitStep(t) ==
    /\ (Steps(t, "initialize_providers") /\ tasks'[t].pc = "done") =>
          /\ tasks'[t].ret = "ok"
          /\ tasks'[t].seen \in {{}, {"ollama", "echo"}}
          /\ tasks'[t].seen = {} => mgr_initialized
          /\ mgr_initialized'
    /\ InitCreateRaises(t) =>
        /\ tasks'[t].pc \in {"create_init", "done"}
        /\ tasks'[t].pc = "done" =>
              /\ tasks'[t].ret = "ok"
              /\ tasks'[t].seen = {"ollama", "echo"}
        /\ tasks'[t].pc = "create_init" =>
              /\ KeyIndex(tasks'[t].name) > KeyIndex(tasks[t].name)
              /\ \A n \in Names :
                    KeyIndex(n) <= KeyIndex(tasks'[t].name) =>
                        n \in tasks'[t].seen

C24_InitContinues == [][\A t \in Tasks : C24_InitStep(t)]_vars

\* initialize_providers has returned: create_instance raised for "ollama",
\* which has no instance, and "echo", which comes after it, has one.
C24_Witness ==
    \E t \in Tasks :
        /\ Returned(t, "initialize_providers")
        /\ tasks[t].seen = {"ollama", "echo"}
        /\ tasks[t].made
        /\ get_instance("ollama") = NoObj
        /\ get_instance("echo") # NoObj

\* A configuration with the content of its nested mapping.
DeepValue(cfg, maps) ==
    [cfg EXCEPT !.api_endpoints = IF @ = None THEN None ELSE Some(maps[@[1]])]

\* C21: when a caller changes a mapping nested in a configuration it passed
\* to create_instance or update_provider_config, every cached configuration
\* is, with its nested mapping, what it was.
C21_CacheIndependent ==
    [][endpoint_maps' # endpoint_maps =>
          \A n \in Names :
              config_cache[n] # None =>
                  /\ config_cache'[n] # None
                  /\ DeepValue(config_cache'[n][1], endpoint_maps')
                       = DeepValue(config_cache[n][1], endpoint_maps)]_vars

\* C30: a step that writes a class into the class table leaves the instance
\* table, the config cache, the metadata cache and every provider object as
\* they are: register creates no instance, and an instance of the name stays
\* when the name is registered again.
C30_RegisterFrame ==
    [][(\E n \in Names : providers'[n] # providers[n]
                           /\ providers'[n] # "none") =>
          UNCHANGED <<instances, config_cache, plugin_metadata, objs,
                      plugin_modules>>]_vars

\* A name is registered with another class than the class of its instance,
\* which is still in the instance table.
C30_Witness ==
    \E n \in Names :
        /\ providers[n] # "none"
        /\ get_instance(n) # NoObj
        /\ objs[get_instance(n)].cls # providers[n]
        /\ objs[get_instance(n)].life = "ready"
        /\ config_cache[n] # None
        /\ plugin_metadata[n] = get_instance(n)

\* C23: a shutdown_all during which no other coroutine changed the instance
\* table invokes shutdown() once for every name of the table, also after a
\* shutdown() that raised, does not raise, and leaves the table empty.
C23_ShutdownStep(t) ==
    (Steps(t, "shutdown_all") /\ ~tasks'[t].disturbed) =>
        /\ tasks'[t].seen \subseteq InstNames(instances)
        /\ tasks'[t].idx = Cardinality(tasks'[t].seen)
        /\ tasks'[t].pc = "done" =>
              /\ tasks'[t].ret = "ok"
              /\ tasks'[t].seen = InstNames(instances)
              /\ InstNames(instances') = {}

C26_HealthStep(t) ==
    LET n == tasks'[t].name
        one(st) == [NoResults EXCEPT ![n] = st]
    IN  /\ Calls(t, "health_check") =>
              /\ tasks'[t].args[1] = Some(n)
              /\ IF get_instance(n) = NoObj
                 THEN /\ tasks'[t].pc = "done"
                      /\ tasks'[t].ret = "ok"
                      /\ tasks'[t].results
                           = one([available |-> FALSE,
                                  error |-> "Provider not found"])
                 ELSE /\ tasks'[t].pc = "provider_health_check"
                      /\ tasks'[t].obj = instances'[n]
        /\ (Steps(t, "health_check")
              /\ tasks[t].pc = "provider_health_check") =>
              /\ tasks'[t].pc = "done"
              /\ tasks'[t].ret = "ok"
              /\ LET out == tasks'[t].outcome[n]
                 IN  IF out.raised
                     THEN tasks'[t].results
                            = one([available |-> FALSE,
                                   error |-> out.status.error])
                     ELSE tasks'[t].results = one(out.status)
        /\ (tasks[t].pc = "idle" /\ tasks'[t].pc # "idle"
              /\ tasks'[t].op \in {"health_check", "health_check_all"}
              /\ tasks'[t].args = <<>>) =>
              tasks'[t].op = "health_check_all"

C26_ManagerHealth == [][\A t \in Tasks : C26_HealthStep(t)]_vars

\* health_check with a name has returned an unavailable status that carries
\* the text of the exception the health_check of the instance raised.
C26_Witness ==
    \E t \in Tasks :
        /\ Returned(t, "health_check")
        /\ tasks[t].outcome[tasks[t].name].raised
        /\ tasks[t].results[tasks[t].name]
             = [available |-> FALSE, error |-> "boom"]

\* ------------------------------------------------------------------------
\* Streams

\* The concatenation of a sequence of texts.
RECURSIVE ConcatAll(_)
ConcatAll(texts) ==
    IF texts = <<>> THEN "" ELSE Head(texts) \o ConcatAll(Tail(texts))

\* The content an upstream item carries.
Carried(item) ==
    IF item.type \in {"json", "choice", "content_block_delta"}
    THEN Get(item.text, "")
    ELSE ""

\* The content of the first k items of the upstream stream.
UpstreamContent(up, k) == ConcatAll([i \in 1..k |-> Carried(up[i])])

\* The content the consumer has received.
YieldedContent ==
    ConcatAll([i \in 1..Len(stream.yielded) |-> stream.yielded[i].content])

\* The positions of the final-flagged chunks the consumer has received.
Finals == {i \in 1..Len(stream.yielded) : stream.yielded[i].is_final}

\* The item is the completion marker of provider p: 'done' of Ollama, a
\* finish_reason of OpenAI, message_stop of Anthropic.
IsMarker(p, item) ==
    CASE p = "ollama" -> item.type = "json" /\ item.done
      [] p = "openai" -> item.type = "choice" /\ item.done
      [] OTHER -> item.type = "message_stop"

\* The position of the first completion marker, 0 when there is none.
MarkerAt(p, up) ==
    IF \E i \in 1..Len(up) : IsMarker(p, up[i])
    THEN CHOOSE i \in 1..Len(up) :
             /\ IsMarker(p, up[i])
             /\ \A j \in 1..(i - 1) : ~IsMarker(p, up[j])
    ELSE 0

\* The upstream stream is whole: it ends with its completion marker, every
\* item of it can be parsed and no read of it raises.
Complete(p, up) ==
    /\ up # <<>>
    /\ MarkerAt(p, up) = Len(up)
    /\ \A i \in 1..Len(up) : up[i].type \notin {"garbage", "raise"}

\* C27: the chunks of a stream that completed without error hold exactly one
\* final-flagged chunk, that chunk is the last one, and the contents of the
\* chunks concatenate to the upstream content.
C27_OneFinalLast ==
    (stream.status = "ended" /\ Complete(stream.provider, stream.upstream))
        => /\ Cardinality(Finals) = 1
           /\ Finals = {Len(stream.yielded)}
           /\ YieldedContent
                = UpstreamContent(stream.upstream, Len(stream.upstream))

\* C28: a stream never ends normally when the upstream stream stopped before
\* its completion marker or delivered a line that cannot be parsed: the
\* consumer gets an error instead.
C28_NoSilentTruncation ==
    stream.status = "ended"
        => /\ MarkerAt(stream.provider, stream.upstream) # 0
           /\ \A i \in 1..MarkerAt(stream.provider, stream.upstream) :
                  stream.upstream[i].type # "garbage"

\* ------------------------------------------------------------------------
\* Reload past a failing shutdown

\* C35: when shutdown() of the old instance raises inside reload_provider,
\* the old instance is no longer in the instance table after the step; if the
\* entry of the name was still there to delete, a new instance with the
\* effective configuration is constructed and awaited (or its construction
\* fails and the call returns false); and when the initialization of that new
\* instance succeeds the call returns true with the new instance in the
\* table, when it fails the call returns false.
C35_ReloadStep(t) ==
    LET tk == tasks[t]
        tk2 == tasks'[t]
        n == tk.name
        raised == /\ Steps(t, "reload_provider")
                  /\ tk.pc = "reload_shutdown"
                  /\ objs'[tk2.old].life = "closing"
        created == /\ Steps(t, "reload_provider")
                   /\ tk.pc = "create_init"
                   /\ tk.old # NoObj
                   /\ objs[tk.old].life = "closing"
    IN  /\ raised => \A m \in Names : instances'[m] # tk2.old
        /\ (raised /\ instances[n] # NoObj) =>
              \/ /\ tk2.pc = "create_init"
                 /\ tk2.obj \notin {NoObj, tk2.old}
                 /\ objs'[tk2.obj].name = n
                 /\ objs'[tk2.obj].config = tk.cfg[1]
              \/ /\ tk2.pc = "done"
                 /\ tk2.ret = "false"
                 /\ tk2.obj = NoObj
        /\ (created /\ tk2.obj # NoObj) =>
              /\ tk2.pc = "done"
              /\ tk2.ret = "true"
              /\ instances'[n] = tk2.obj
              /\ objs'[tk2.obj].life = "ready"
        /\ (created /\ tk2.obj = NoObj) =>
              tk2.pc = "done" /\ tk2.ret = "false"

C35_ReloadPastShutdownError == [][\A t \in Tasks : C35_ReloadStep(t)]_vars

\* A reload_provider whose old instance raised in shutdown() has returned
\* true, and the new instance is in the table.
C35_Witness ==
    \E t \in Tasks :
        /\ Returned(t, "reload_provider")
        /\ tasks[t].ret = "true"
        /\ tasks[t].old # NoObj
        /\ objs[tasks[t].old].life = "closing"
        /\ tasks[t].obj # NoObj
        /\ instances[tasks[t].name] = tasks[t].obj

\* ------------------------------------------------------------------------
\* The aggregate operations under concurrent change

\* C36: health_check_all and shutdown_all never end with an exception,
\* whatever create_instance, reload_provider and unregister_provider do to
\* the instance table while they are suspended.
C36_AggregatesNeverRaise ==
    \A t \in Tasks :
        (Returned(t, "health_check_all") \/ Returned(t, "shutdown_all"))
            => tasks[t].ret # "raised"

\* ------------------------------------------------------------------------
\* Transient failures of the Ollama provider

\* C37: a chat_completion that failed because the upstream call of the
\* initialized Ollama provider was refused or timed out has made all the
\* attempts of the budget and fails with the connectivity error.
C37_OllamaTransientRetried ==
    \A t \in Tasks :
        (/\ Returned(t, "chat_completion")
         /\ tasks[t].obj # NoObj
         /\ objs[tasks[t].obj].inited
         /\ tasks[t].err \in {ollama_raises(UpConnectorError),
                              ollama_raises(UpTimeout)})
            => /\ tasks[t].attempt = MaxAttempts
               /\ tasks[t].ret = "err_connection"

\* ------------------------------------------------------------------------
\* Plugin discovery

\* The names in a list.
Range(list) == {list[i] : i \in 1..Len(list)}

\* C38: discover_plugins returns and does not raise; the class of every
\* file that loads is registered with its module path although other files
\* raise while loading; the returned list holds exactly the names this call
\* registered; no other name is registered or changed; and for a directory
\* that does not exist the list is empty and the registry is unchanged.
C38_DiscoverStep(t) ==
    LET dir == tasks'[t].dir
        registered == IF dir.exists THEN dir.loads ELSE {}
    IN  Calls(t, "discover_plugins") =>
            /\ tasks'[t].pc = "done"
            /\ tasks'[t].ret = "ok"
            /\ \A n \in registered :
                  providers'[n] = ClassOf(n) /\ n \in plugin_modules'
            /\ Range(tasks'[t].discovered) = registered
            /\ \A n \in Names \ registered :
                  /\ providers'[n] = providers[n]
                  /\ n \in plugin_modules' <=> n \in plugin_modules
            /\ ~dir.exists =>
                  /\ tasks'[t].discovered = <<>>
                  /\ UNCHANGED <<providers, plugin_modules, config_cache>>
                  /\ \E ren \in Renumberings :
                        SameTables(ren) /\ SameObjects(ren)

C38_DiscoverIsolatesFailures ==
    [][\A t \in Tasks : C38_DiscoverStep(t)]_vars

\* A discovery has returned the name of a file that loads, from a directory
\* in which the file listed before it raised while loading.
C38_Witness ==
    \E t \in Tasks :
        /\ Returned(t, "discover_plugins")
        /\ tasks[t].dir.exists
        /\ tasks[t].dir.files = {"ollama", "echo"}
        /\ tasks[t].dir.loads = {"echo"}
        /\ tasks[t].discovered = <<"echo">>
        /\ providers["echo"] = ClassOf("echo")
        /\ "echo" \in plugin_modules

\* ------------------------------------------------------------------------
\* The config cache and the live instance

\* C40: whenever no registry operation is under way, every name of the
\* instance table has a config-cache entry, and the cached configuration is
\* the one the live instance holds.
C40_CacheMatchesInstance ==
    (\A t \in Tasks : tasks[t].pc \in {"idle", "done"}) =>
        \A n \in Names :
            get_instance(n) # NoObj =>
                /\ config_cache[n] # None
                /\ config_cache[n][1] = objs[get_instance(n)].config

\* ------------------------------------------------------------------------
\* Provider resources

\* C39: no instance opens a second session while it holds an open one, and
\* when no operation is under way every instance that holds an open session
\* which no shutdown() has touched is in the instance table.
C39_NoSessionLeaked ==
    /\ \A i \in ObjIds : ~objs[i].leaked
    /\ (\A t \in Tasks : tasks[t].pc \in {"idle", "done"}) =>
          \A i \in ObjIds :
              objs[i].life = "ready" => \E n \in Names : get_instance(n) = i

\* ------------------------------------------------------------------------
\* ChatService.send_message

\* The coroutine has called fn.
Has(call, fn) == \E i \in 1..Len(call.calls) : call.calls[i] = fn

\* The send_message coroutines.
Sent == {t \in ChatTasks : chat.calls[t].op = "send_message"}

\* C31: a send_message with an empty prompt is processed: when it is over,
\* the model manager has been called and the response is returned with the
\* conversation id.
C31_EmptyPromptProcessed ==
    \A t \in Sent :
        LET call == chat.calls[t]
        IN  call.prompt = <<>> /\ call.pc = "done" =>
                call.ret = "ok" /\ Has(call, "chat_completion")

\* C32: the ChatRequest send_message gives to the model manager has one
\* message, of the user, whose content is the prompt of the caller exactly.
C32_PromptUnchanged ==
    \A t \in Sent :
        LET call == chat.calls[t]
        IN  Has(call, "chat_completion") =>
                call.request = <<ChatMessage("user", call.prompt)>>

\* What send_message persists and asks of the model manager, in order.
Exchange(call) ==
    SelectSeq(call.calls,
              LAMBDA fn : fn \in {"add_message:user", "chat_completion",
                                  "add_message:assistant"})

\* The messages of role role that coroutine t has persisted are in the
\* conversation it fetched.
Stored(t, role) ==
    LET call == chat.calls[t]
    IN  Has(call, "add_message:" \o role) =>
            \E i \in 1..Len(chat.conversations[call.conversation.id].messages) :
                LET m == chat.conversations[call.conversation.id].messages[i]
                IN  /\ m.role = role
                    /\ m.content = IF role = "user"
                                   THEN call.messages[1].content
                                   ELSE ResponseContent

\* C33: a send_message that returns has persisted the message of the user,
\* then called the model manager once, then persisted the message of the
\* assistant, and nothing else; one in which the model manager raised ends
\* with that error and has persisted no message of the assistant.
C33_TwoMessagesAroundOneCall ==
    \A t \in Sent :
        LET call == chat.calls[t]
        IN  /\ call.pc = "done" /\ call.ret = "ok" =>
                /\ Exchange(call) = <<"add_message:user", "chat_completion",
                                      "add_message:assistant">>
                /\ Stored(t, "user") /\ Stored(t, "assistant")
            /\ call.pc = "done" /\ call.ret = "raise"
                              /\ Has(call, "chat_completion") =>
                /\ call.error = "AI provider error"
                /\ Exchange(call) = <<"add_message:user", "chat_completion">>

\* A send_message has returned after the exchange.
C33_Witness ==
    \E t \in Sent :
        /\ chat.calls[t].pc = "done"
        /\ chat.calls[t].ret = "ok"
        /\ Has(chat.calls[t], "add_message:assistant")

\* A conversation that has a title when fetched never has title generation
\* or title update invoked, and none is invoked before the response is
\* persisted.
TitledUntouched ==
    \A t \in Sent :
        LET call == chat.calls[t]
        IN  /\ ~Falsy(call.conversation.title) =>
                /\ ~Has(call, "generate_conversation_title")
                /\ ~Has(call, "update_conversation_title")
            /\ Has(call, "generate_conversation_title") =>
                Has(call, "add_message:assistant")

\* C34 as stated: a send_message that returns has generated and stored a
\* title if and only if the conversation it fetched had none.
C34_TitleIffUntitled ==
    /\ TitledUntouched
    /\ \A t \in Sent :
           LET call == chat.calls[t]
           IN  call.pc = "done" /\ call.ret = "ok" =>
                   (/\ Has(call, "generate_conversation_title")
                    /\ Has(call, "update_conversation_title"))
                       <=> Falsy(call.conversation.title)

\* C34, amended: a send_message that returns has had a title generated if
\* and only if the conversation it fetched had none, and has stored it if
\* and only if, in addition, the generated title is not empty; a
\* conversation that already had a title has neither invoked.
C34_TitleIffUntitledAndMade ==
    /\ TitledUntouched
    /\ \A t \in Sent :
           LET call == chat.calls[t]
           IN  call.pc = "done" /\ call.ret = "ok" =>
                   /\ Has(call, "generate_conversation_title")
                          <=> Falsy(call.conversation.title)
                   /\ Has(call, "update_conversation_title")
                          <=> (/\ Falsy(call.conversation.title)
                               /\ ~Falsy(call.title))
                   /\ Has(call, "update_conversation_title") =>
                          chat.conversations[call.conversation.id].title
                              = call.title

\* A send_message has returned with a title generated and none stored.
C34_Witness ==
    \E t \in Sent :
        /\ chat.calls[t].pc = "done"
        /\ chat.calls[t].ret = "ok"
        /\ Has(chat.calls[t], "generate_conversation_title")
        /\ ~Has(chat.calls[t], "update_conversation_title")

====
